---- MODULE Spec2Model ----
(***************************************************************************)
(* A model of the chat Run orchestrator (chatAction and its callbacks).    *)
(* One Run is one request.  Every action is one callback of the Run, run   *)
(* to its next await: the JavaScript event loop serialises the callbacks.  *)
(* Strings that the code inspects are sequences of one-character strings.  *)
(***************************************************************************)
EXTENDS Integers, Sequences, FiniteSets, TLC

(***************************************************************************)
(* Bounds of the model (not program constants).                            *)
(***************************************************************************)
\* heartbeat ticks explored per Run
MaxHeartbeats == 1
\* backend steps (onStepFinish calls) explored per Run
MaxSteps == 3
\* expiries of the idle check explored per Run
MaxIdleExpiries == 3
\* segments per Run whose text the ContinuationAnalyzer finds scaffold-only
MaxScaffoldFinishes == 7
\* segments per Run that finish with reason 'length'
MaxLengthFinishes == 3
\* steps in the list given to InteractiveStepRunner.run
MaxRunnerSteps == 2
\* chunks the executor delivers during one call of InteractiveStepRunner.run
MaxChunks == 3
\* chunks the executor delivers while the socket of the runner is followed
MaxSocketChunks == 2
\* backend calls of one Run that report a usage
MaxUsageReports == 5
\* the timeout of the idle clock in ticks, where the clock is followed
TimeoutWindow == 2

(***************************************************************************)
(* Program constants.                                                      *)
(***************************************************************************)
MAX_RUN_CONTINUATION_ATTEMPTS == 5
\* default of BOLT_STREAM_RECOVERY_MAX_RETRIES
DefaultStreamMaxRetries == 2
\* '~/lib/.server/llm/constants' is not part of the sources at hand
MAX_RESPONSE_SEGMENTS == 2

UNDEF == <<"undefined">>

(***************************************************************************)
(* String helpers: String.prototype.trim / toLowerCase on the characters   *)
(* that occur in the inputs of the model.                                  *)
(***************************************************************************)
Upper == <<"A","B","C","D","E","F","G","H","I","J","K","L","M","N","O","P","Q","R","S","T","U","V","W","X","Y","Z">>
Lower == <<"a","b","c","d","e","f","g","h","i","j","k","l","m","n","o","p","q","r","s","t","u","v","w","x","y","z">>
Digits == {"0","1","2","3","4","5","6","7","8","9"}

ToLowerChar(c) ==
  IF \E i \in 1..26 : Upper[i] = c
  THEN Lower[CHOOSE i \in 1..26 : Upper[i] = c]
  ELSE c

ToLowerCase(s) == [i \in 1..Len(s) |-> ToLowerChar(s[i])]

IsSpace(c) == c \in {" ", "\t", "\n"}

RECURSIVE TrimLeft(_)
TrimLeft(s) == IF s # <<>> /\ IsSpace(Head(s)) THEN TrimLeft(Tail(s)) ELSE s

RECURSIVE TrimRight(_)
TrimRight(s) ==
  IF s # <<>> /\ IsSpace(s[Len(s)]) THEN TrimRight(SubSeq(s, 1, Len(s) - 1)) ELSE s

Trim(s) == TrimRight(TrimLeft(s))

(***************************************************************************)
(* parseBooleanEnv(value, fallback)                                        *)
(***************************************************************************)
TruthyWords == { <<"1">>, <<"t","r","u","e">>, <<"y","e","s">>, <<"o","n">> }
FalsyWords == { <<"0">>, <<"f","a","l","s","e">>, <<"n","o">>, <<"o","f","f">> }

parseBooleanEnv_IgnoreFalsy(value, fallback) ==
  IF value = UNDEF THEN fallback
  ELSE IF ToLowerCase(Trim(value)) \in TruthyWords THEN TRUE
  ELSE fallback

parseBooleanEnv(value, fallback) ==
  IF value = UNDEF THEN fallback
  ELSE LET normalized == ToLowerCase(Trim(value))
       IN IF normalized \in TruthyWords THEN TRUE
          ELSE IF normalized \in FalsyWords THEN FALSE
          ELSE fallback

(***************************************************************************)
(* LONG_THINK_MODEL_RE.test(name): one of the alternatives occurs in the   *)
(* name, ignoring case, with a word boundary on both sides.                *)
(***************************************************************************)
LongThinkAlternatives ==
  { <<"g","p","t","-","5">>,
    <<"g","p","t","-","5",".","2">>,
    <<"g","p","t","-","5","-","c","o","d","e","x">>,
    <<"c","o","d","e","x">>,
    <<"o","1">>,
    <<"o","3">>,
    <<"c","l","a","u","d","e","-","3",".","7">>,
    <<"c","l","a","u","d","e","-","3",".","5","-","s","o","n","n","e","t","-","l","a","t","e","s","t">>,
    <<"c","l","a","u","d","e","-","3","-","5","-","s","o","n","n","e","t","-","l","a","t","e","s","t">> }

IsWordChar(c) ==
  \/ \E i \in 1..26 : Lower[i] = c \/ Upper[i] = c
  \/ c \in Digits
  \/ c = "_"

\* \b between positions i and i+1 of s (0 <= i <= Len(s))
WordBoundaryAfter(s, i) ==
  LET left == i >= 1 /\ IsWordChar(s[i])
      right == i + 1 <= Len(s) /\ IsWordChar(s[i + 1])
  IN left # right

MatchesAt(s, alt, i) ==
  /\ i + Len(alt) - 1 <= Len(s)
  /\ ToLowerCase(SubSeq(s, i, i + Len(alt) - 1)) = alt
  /\ WordBoundaryAfter(s, i - 1)
  /\ WordBoundaryAfter(s, i + Len(alt) - 1)

LONG_THINK_MODEL_RE(s) ==
  \E alt \in LongThinkAlternatives : \E i \in 1..Len(s) : MatchesAt(s, alt, i)

(***************************************************************************)
(* State of one Run.                                                       *)
(***************************************************************************)
VARIABLES
  \* the request and the runtime environment
  chatMode, envPlannerEnabled, envPlannerLongThink, plannerModel, selectedModel,
  contextOptimization, filePathsNonEmpty,
  \* where execute() or the backend is
  pc, errorSurfaced,
  \* the output channel: the events the last callback wrote, the counter that
  \* orders them, and the orders written before
  progressCounter, written, lastCommentaryPhase, lastCommentaryOrder, lastOrder,
  \* timers: the commentary heartbeat and the StreamRecoveryManager
  commentaryHeartbeat, monitorActive, retryCount,
  \* the pending recovery signal
  pendingRecoveryReason, pendingRecoveryBackoffMs, forceFinalizeRequested,
  \* the signals merged since the pending signal was last cleared
  signalsSinceClear,
  recoveryTriggered, recoverySucceeded, hasExecutionFailures,
  completionEmitted, completionBatches,
  forceFinalizeAttempted, runContinuationAttempts, forcedRunRecoveryAttempted,
  \* the backend segment in flight and the conversation
  \* the length of the conversation processToolInvocations returns
  messagesAtStart,
  activeStreamAbortController, segmentOptions, processedMessages, switches,
  segmentsIssued, lengthContinuations, forcedRecoveries, finalizeSegments,
  \* the last call of options.onFinish: its inputs and the transition it took
  finishes, lastFinish,
  \* the finish reason the finalize segment ended with (its onFinish does not
  \* read it)
  finalizeFinishReason,
  \* the pending backoff has been awaited and no signal was raised since
  backoffConsumed,
  \* the error the catch of chatAction caught, and the Response it returned
  caughtError, errorResponse,
  \* what the last call of options.onStepFinish reported
  lastStep,
  \* AgentRecoveryController
  noProgressSteps, repeatedSteps,
  \* the planner sub-agent
  plannerEntered, subAgentState, subAgentPlan, subAgentEvents,
  \* BOLT_STREAM_TIMEOUT_MS and BOLT_STREAM_RECOVERY_MAX_RETRIES, in envVars and
  \* in process.env, and the values execute() derives from them
  envStreamTimeoutMs, processEnvStreamTimeoutMs, envStreamMaxRetries,
  processEnvStreamMaxRetries, streamTimeoutMs, streamMaxRetries,
  \* createSummary and selectContext: "not-run", "running" or "done"
  summaryPhase, contextPhase,
  \* how the planner try block of lines 712-768 ended
  plannerOutcome,
  \* what the environment may still do in this Run
  stepsLeft, heartbeatsLeft, idlesLeft, scaffoldsLeft, lengthsLeft, lengthUnlimited,
  \* the idle clock of the StreamRecoveryManager: the timeout in ticks (0: the
  \* time between two callbacks is left open) and the ticks since it was armed
  timeoutTicks, idleElapsed,
  \* ticks since the last activity and since the last timeout signal, up to
  \* the timeout
  sinceActivity, sinceSignal,
  \* InteractiveStepRunner: the argument of run(), its loop index and where it
  \* is, #streamBuffer in insertion order, whether #streamFlushTimer is
  \* pending, the events dispatched so far and the value run() returned
  steps, index, runState, streamBuffer, streamFlushTimer, pendingTimers, events, runResult,
  \* chunks the executor may still deliver in this call of run()
  chunksLeft,
  \* what the executor did: the chunks it delivered, and how each call of
  \* executeStep ended: << exitCode >>, or <<>> when it rejected
  delivered, outcomes, thrown,
  \* how many of the delivered chunks a flush has already taken
  flushedUpTo,
  \* the socket of the runner, the payloads sent over it, and the socket as it
  \* was when each event was emitted
  socket, sent, socketAtEmit,
  \* the credential helpers: the value under test and what normalizeCredential
  \* and normalizeHttpUrl returned for it, and what normalizeCredential returned
  \* for its own result
  rawValue, credential, httpUrl, renormalized,
  \* cumulativeUsage; how many backend calls may still report a usage in this
  \* Run; the usage every finished call reported, in order; and the usage event
  \* of the completion batch
  cumulativeUsage, usagesLeft, usageDeltas, usageEvent,
  \* the run-metrics event of the completion batch
  runMetricsEvent,
  \* the configured-providers loader: the config of each local provider, the
  \* three environments it reads, and the providers of the response
  providerConfig, cloudflareEnv, processEnv, managerEnv, providersResponse,
  \* the shared SubAgentManager and the Runs of one process: the executor
  \* registered under 'planner' (named by the Run that built it), where each
  \* Run is in lines 689-727, and the executor its start() invoked
  executors, plannerStep, invokedExecutor,
  \* the output transform of the chat stream: lastChunk (none before the
  \* first chunk), the strings it enqueued, and the chunks it was given
  lastChunk, enqueued, partsIn

cfgVars == <<chatMode, envPlannerEnabled, envPlannerLongThink, plannerModel, selectedModel,
             contextOptimization, filePathsNonEmpty, lengthUnlimited,
            messagesAtStart, timeoutTicks>>
outVars == <<progressCounter, written, lastCommentaryPhase, lastCommentaryOrder, lastOrder>>
timerVars == <<commentaryHeartbeat, monitorActive, retryCount>>
pendVars == <<pendingRecoveryReason, pendingRecoveryBackoffMs, forceFinalizeRequested,
             signalsSinceClear>>
flagVars == <<recoveryTriggered, recoverySucceeded, hasExecutionFailures>>
complVars == <<completionEmitted, completionBatches, usageEvent, runMetricsEvent>>
contVars == <<forceFinalizeAttempted, runContinuationAttempts, forcedRunRecoveryAttempted>>
segVars == <<activeStreamAbortController, segmentOptions, processedMessages,
             segmentsIssued, lengthContinuations, forcedRecoveries, finalizeSegments>>
finVars == <<finishes, lastFinish, lastStep, finalizeFinishReason>>
rcVars == <<noProgressSteps, repeatedSteps>>
ctxVars == <<summaryPhase, contextPhase>>
streamEnvVars == <<envStreamTimeoutMs, processEnvStreamTimeoutMs, envStreamMaxRetries,
                   processEnvStreamMaxRetries>>
streamCfgVars == <<streamTimeoutMs, streamMaxRetries>>
catchVars == <<caughtError, errorResponse>>
planVars == <<plannerEntered, subAgentState, subAgentPlan, subAgentEvents, plannerOutcome>>
clockVars == <<idleElapsed, sinceActivity, sinceSignal>>
worldVars == <<stepsLeft, heartbeatsLeft, idlesLeft, scaffoldsLeft, lengthsLeft>>
usageVars == <<cumulativeUsage, usagesLeft, usageDeltas>>

runnerVars == <<steps, index, runState, streamBuffer, streamFlushTimer, pendingTimers, events, runResult,
                chunksLeft, delivered, outcomes, thrown, flushedUpTo, socket, sent,
                socketAtEmit>>

chatVars == <<cfgVars, pc, errorSurfaced, outVars, timerVars, pendVars, flagVars, complVars,
          contVars, segVars, finVars, switches, rcVars, ctxVars, streamEnvVars, streamCfgVars, catchVars,
          backoffConsumed, planVars, worldVars, clockVars, usageVars>>

credVars == <<rawValue, credential, httpUrl, renormalized>>

provVars == <<providerConfig, cloudflareEnv, processEnv, managerEnv, providersResponse>>

regVars == <<executors, plannerStep, invokedExecutor>>

xformVars == <<lastChunk, enqueued, partsIn>>

libVars == <<credVars, provVars, regVars, xformVars>>

vars == <<chatVars, runnerVars, libVars>>

\* A helper that has not been called yet.
NotComputed == << "not computed" >>

CredentialsIdle ==
  /\ rawValue = UNDEF /\ credential = NotComputed /\ httpUrl = NotComputed
  /\ renormalized = NotComputed

NoProvider == [instance |-> FALSE, baseUrlKey |-> FALSE, apiTokenKey |-> FALSE]

EmptyEnv == [baseUrl |-> UNDEF, apiToken |-> UNDEF]

ProvidersIdle ==
  /\ providerConfig = << >>
  /\ cloudflareEnv = EmptyEnv /\ processEnv = EmptyEnv /\ managerEnv = EmptyEnv
  /\ providersResponse = NotComputed

\* the Runs that share the process
Runs == { "run A", "run B", "run C" }

RegistryIdle ==
  /\ executors = [planner |-> "none"]
  /\ plannerStep = [r \in Runs |-> "intake"]
  /\ invokedExecutor = [r \in Runs |-> "none"]

\* line 313: let lastChunk = undefined; nothing is enqueued yet
TransformIdle ==
  /\ lastChunk = <<>>
  /\ enqueued = <<>>
  /\ partsIn = <<>>

LibIdle == CredentialsIdle /\ ProvidersIdle /\ RegistryIdle /\ TransformIdle

Min(a, b) == IF a < b THEN a ELSE b
Max(a, b) == IF a > b THEN a ELSE b

(***************************************************************************)
(* Token usage ('~/lib/runtime/usage'): addUsageTotals adds a usage to the *)
(* totals, field by field.                                                 *)
(***************************************************************************)
\* what a finished backend call may report: no usage, or one with tokens
Usages ==
  { [completionTokens |-> 1, promptTokens |-> 2, totalTokens |-> 3],
    [completionTokens |-> 2, promptTokens |-> 0, totalTokens |-> 2] }

addUsageTotals_TotalOnly(totals, usage) ==
  [totals EXCEPT !.totalTokens = @ + usage.totalTokens]

addUsageTotals(totals, usage) ==
  [completionTokens |-> totals.completionTokens + usage.completionTokens,
   promptTokens |-> totals.promptTokens + usage.promptTokens,
   totalTokens |-> totals.totalTokens + usage.totalTokens]

\* lines 422-427: the usage event of the completion batch
usageDataEvent_TotalOnly(totals) ==
  [completionTokens |-> 0, promptTokens |-> 0, totalTokens |-> totals.totalTokens]

usageDataEvent(totals) ==
  [completionTokens |-> totals.completionTokens,
   promptTokens |-> totals.promptTokens,
   totalTokens |-> totals.totalTokens]

\* a backend call finishes: if (usage) addUsageTotals(cumulativeUsage, usage)
CallFinishes(call) ==
  \E reported \in {<<>>} \cup (IF usagesLeft > 0 THEN { << u >> : u \in Usages } ELSE {}) :
    /\ usagesLeft' = IF reported = <<>> THEN usagesLeft ELSE usagesLeft - 1
    /\ cumulativeUsage' = IF reported # <<>>
                          THEN addUsageTotals(cumulativeUsage, reported[1])
                          ELSE cumulativeUsage
    /\ usageDeltas' = IF reported # <<>>
                      THEN Append(usageDeltas, [call |-> call, usage |-> reported[1]])
                      ELSE usageDeltas

(***************************************************************************)
(* The output channel.                                                     *)
(***************************************************************************)
Commentary(phase, status) ==
  [type |-> "agent-commentary", tag |-> phase, status |-> status, note |-> "", order |-> 0]

Progress(label, status, message) ==
  [type |-> "progress", tag |-> label, status |-> status, note |-> message, order |-> 0]

\* `order = progressCounter++` of the i-th event a handler writes
OrderOf_Stale(counter, i) == counter

OrderOf(counter, i) == counter + i - 1

Stamp(evs, counter) ==
  [i \in 1..Len(evs) |-> [evs[i] EXCEPT !.order = OrderOf(counter, i)]]

CommentaryPhases(evs) ==
  SelectSeq(evs, LAMBDA e : e.type = "agent-commentary")

LastOrder(evs, before) ==
  IF evs = <<>> THEN before ELSE evs[Len(evs)].order

\* a handler writes the events evs, in this order, to the data stream
Emit(evs) ==
  LET stamped == Stamp(evs, progressCounter)
      cs == CommentaryPhases(stamped)
  IN /\ written' = stamped
     /\ progressCounter' = progressCounter + Len(evs)
     /\ lastCommentaryPhase' = IF cs = <<>> THEN lastCommentaryPhase ELSE cs[Len(cs)].tag
     /\ lastCommentaryOrder' = LastOrder(cs, lastCommentaryOrder)
     /\ lastOrder' = LastOrder(stamped, lastOrder)

\* a handler that writes nothing
EmitNothing ==
  /\ written' = << >>
  /\ UNCHANGED <<progressCounter, lastCommentaryPhase, lastCommentaryOrder, lastOrder>>

(***************************************************************************)
(* Counters that only record what happened.  A Run whose backend may       *)
(* answer 'length' without limit is followed with the conversation cut    *)
(* off at a cap and, past the cap, only the parity of these counters; the  *)
(* code reads none of them.                                                *)
(***************************************************************************)
SegmentCap == MAX_RUN_CONTINUATION_ATTEMPTS + 3 + MaxLengthFinishes

Bump(n) == IF lengthUnlimited /\ n >= SegmentCap THEN n - 1 ELSE n + 1

\* processedMessages is followed by its length and its last two messages
Push_DirectiveOnly(messages, assistant, user) ==
  [length |-> messages.length + 1, tail |-> <<"assistant", user>>]

Push(messages, assistant, user) ==
  [length |-> IF lengthUnlimited /\ messages.length >= 1 + 2 * SegmentCap
              THEN messages.length ELSE messages.length + 2,
   tail |-> <<assistant, user>>]

(***************************************************************************)
(* Inputs.                                                                 *)
(***************************************************************************)
StreamTimeoutValues ==
  { UNDEF, <<>>,
    <<"a","b","c">>,
    <<"2","9","9","9","9">>,
    <<"3","0","0","0","0">>,
    <<" ","4","5","0","0","0"," ">>,
    <<"I","n","f","i","n","i","t","y">>,
    <<"-","4","0","0","0","0">>,
    <<"0">> }
StreamMaxRetriesValues ==
  { UNDEF, <<>>,
    <<"0">>,
    <<"1">>,
    <<"3">>,
    <<"-","1">>,
    <<"x","2">>,
    <<"I","n","f","i","n","i","t","y">> }
\* What chatAction may catch: an Error with a message and, as the errors of
\* the backend client do, maybe a statusCode (0: none) and an isRetryable flag.
ErrorMessages ==
  { <<>>, <<"M","i","s","s","i","n","g"," ","A","P","I"," ","k","e","y"," ","f","o","r"," ","p","r","o","v","i","d","e","r">>, <<"i","n","v","a","l","i","d"," ","a","p","i"," ","k","e","y">>, <<"R","a","t","e"," ","l","i","m","i","t"," ","e","x","c","e","e","d","e","d">> }
ThrownErrors ==
  [message : ErrorMessages, statusCode : {0, 401, 429, 503},
   isRetryable : {"undefined", "true", "false"}]
NoError == [message |-> <<>>, statusCode |-> 0, isRetryable |-> "none"]
NoResponse == [status |-> 0, statusCode |-> 0, isRetryable |-> FALSE, message |-> <<>>]
PlannerEndings == {"none", "spawn-throws", "plan", "empty", "failed", "throws"}
ChatModes == {"build", "discuss"}

EnvValues ==
  { UNDEF, <<"1">>, <<" ","T","R","U","E"," ">>, <<"Y","e","s">>, <<"o","f","f">>,
    <<"N","O","\n">>, <<"0">>, <<"m","a","y","b","e">>, <<>> }

ModelNames ==
  { UNDEF, <<>>, <<"g","p","t","-","4","o">>, <<"o","3","-","m","i","n","i">>,
    <<"G","P","T","-","5","-","C","o","d","e","x">>, <<"o","1","x">>,
    <<"c","l","a","u","d","e","-","3",".","7","-","s","o","n","n","e","t">> }

TypeOK ==
  /\ chatMode \in ChatModes \cup {"undefined"}
  /\ envPlannerEnabled \in EnvValues /\ envPlannerLongThink \in EnvValues
  /\ plannerModel \in ModelNames /\ selectedModel \in ModelNames
  /\ contextOptimization \in BOOLEAN /\ filePathsNonEmpty \in BOOLEAN
  /\ pc \in {"intake", "processToolInvocations", "createSummary", "selectContext", "spawn",
             "plannerStart", "streaming", "backoff", "completed", "error"}
  /\ errorSurfaced \in {"none", "pre-stream", "backend", "timeout", "segment-limit"}
  /\ progressCounter \in Nat \ {0}
  /\ commentaryHeartbeat \in BOOLEAN /\ monitorActive \in BOOLEAN
  /\ retryCount \in 0..Max(DefaultStreamMaxRetries, streamMaxRetries)
  /\ streamTimeoutMs \in Nat /\ streamMaxRetries \in Nat
  /\ messagesAtStart \in 1..3
  /\ backoffConsumed \in BOOLEAN
  /\ timeoutTicks \in Nat
  /\ index \in 0..Len(steps)
  /\ runState \in {"idle", "executing", "returned"}
  /\ streamFlushTimer \in BOOLEAN
  /\ pendingTimers \in Nat
  /\ runResult.status \in {"none", "complete", "error"}
  /\ chunksLeft \in Nat
  /\ idleElapsed \in 0..timeoutTicks
  /\ sinceActivity \in 0..timeoutTicks /\ sinceSignal \in 0..timeoutTicks
  /\ finalizeSegments \in 0..1
  /\ plannerOutcome \in PlannerEndings
  /\ summaryPhase \in {"not-run", "running", "done"}
  /\ contextPhase \in {"not-run", "running", "done"}
  /\ finishes \in 0..SegmentCap
  /\ lastFinish.finishReason \in {"none", "stop", "length", "tool-calls"}
  /\ lastFinish.shouldContinue \in BOOLEAN
  /\ lastStep \in {"none", "text", "tool", "repeat", "toolfail"}
  /\ caughtError \in ThrownErrors \cup {NoError}
  /\ errorResponse.status \in {0, 401, 429, 500, 503}
  /\ lastFinish.transition \in {"none", "finalizing", "continuing", "forced-recovery",
                                 "completed", "segment-limit", "length-continuation"}
  /\ pendingRecoveryReason \in {"none", "stream-timeout", "no-progress", "repeated-tool-call"}
  /\ pendingRecoveryBackoffMs \in Nat
  /\ forceFinalizeRequested \in BOOLEAN
  /\ runContinuationAttempts \in Nat
  /\ activeStreamAbortController \in {"null", "live", "aborted"}
  /\ segmentOptions \in {"none", "options", "finalizeOptions"}
  /\ subAgentState \in {"none", "pending", "planning", "executing", "complete", "failed"}

\* no call of executeStep has thrown
NothingThrown == [kind |-> "none", message |-> <<>>, value |-> 0]

\* what run() has returned before it returns
NoResult == [status |-> "none", failedStepIndex |-> <<>>, exitCode |-> <<>>, error |-> <<>>]

\* new InteractiveStepRunner(executor), part_004 lines 72-81
NewRunner ==
  /\ index = 0 /\ runState = "idle"
  /\ streamBuffer = <<>> /\ streamFlushTimer = FALSE /\ pendingTimers = 0
  /\ events = <<>> /\ runResult = NoResult
  /\ delivered = <<>> /\ outcomes = <<>> /\ thrown = NothingThrown
  /\ flushedUpTo = 0
  /\ sent = <<>> /\ socketAtEmit = <<>>

\* the runner was constructed without a socket
NoSocket == [present |-> FALSE, readyState |-> 0]

\* a runner that is given no step and no chunk
NoSteps == NewRunner /\ steps = <<>> /\ chunksLeft = 0 /\ socket = NoSocket

\* The state after the request is parsed, before execute() runs.
InitRun ==
  /\ pc = "intake" /\ errorSurfaced = "none"
  /\ progressCounter = 1 /\ written = <<>> /\ lastCommentaryPhase = "plan"
  /\ lastCommentaryOrder = 0 /\ lastOrder = 0
  /\ commentaryHeartbeat = FALSE /\ monitorActive = FALSE /\ retryCount = 0
  /\ pendingRecoveryReason = "none" /\ pendingRecoveryBackoffMs = 0
  /\ signalsSinceClear = <<>>
  /\ forceFinalizeRequested = FALSE
  /\ recoveryTriggered = FALSE /\ recoverySucceeded = FALSE /\ hasExecutionFailures = FALSE
  /\ completionEmitted = FALSE /\ completionBatches = 0 /\ usageEvent = <<>>
  /\ runMetricsEvent = <<>>
  /\ cumulativeUsage = [completionTokens |-> 0, promptTokens |-> 0, totalTokens |-> 0]
  /\ usageDeltas = <<>>
  /\ forceFinalizeAttempted = FALSE /\ runContinuationAttempts = 0
  /\ forcedRunRecoveryAttempted = FALSE
  /\ activeStreamAbortController = "null" /\ segmentOptions = "none"
  /\ switches = 0
  /\ segmentsIssued = 0 /\ lengthContinuations = 0 /\ forcedRecoveries = 0
  /\ finalizeSegments = 0 /\ finishes = 0
  /\ lastFinish = [finishReason |-> "none", shouldContinue |-> FALSE, transition |-> "none"]
  /\ lastStep = "none" /\ finalizeFinishReason = "none"
  /\ backoffConsumed = FALSE
  /\ caughtError = NoError /\ errorResponse = NoResponse
  /\ noProgressSteps = 0 /\ repeatedSteps = 0
  /\ plannerEntered = FALSE /\ subAgentState = "none" /\ subAgentPlan = FALSE
  /\ subAgentEvents = 0
  /\ plannerOutcome = "none"
  /\ summaryPhase = "not-run" /\ contextPhase = "not-run"
  /\ streamTimeoutMs = 0 /\ streamMaxRetries = 0
  /\ idleElapsed = 0 /\ sinceActivity = 0

\* line 523: the conversation of n messages the Run starts from
Conversation(n) ==
  /\ messagesAtStart = n
  /\ processedMessages = [length |-> n, tail |-> <<"user">>]

\* neither envVars nor process.env configures the stream recovery
StreamEnvUnset ==
  /\ envStreamTimeoutMs = UNDEF /\ processEnvStreamTimeoutMs = UNDEF
  /\ envStreamMaxRetries = UNDEF /\ processEnvStreamMaxRetries = UNDEF

\* The timeout of the idle clock, in ticks; no timeout signal was raised yet.
IdleTimeout(ticks) == timeoutTicks = ticks /\ sinceSignal = ticks

\* What the environment does at most in one Run.
Scenario(backendSteps, heartbeats, idles, scaffolds, lengths) ==
  /\ stepsLeft = backendSteps /\ heartbeatsLeft = heartbeats /\ idlesLeft = idles
  /\ scaffoldsLeft = scaffolds /\ lengthsLeft = lengths

\* Three requests: a build with the planner, a build with context optimization
\* and the planner switched off, and a discussion.
Init ==
  /\ InitRun
  /\ LibIdle
  /\ usagesLeft = 0
  /\ NoSteps
  /\ \/ Scenario(0, 0, 0, MaxScaffoldFinishes, MaxLengthFinishes)
     \/ Scenario(MaxSteps, 0, 0, 1, 1)
     \/ Scenario(1, MaxHeartbeats, MaxIdleExpiries, 1, 1)
     \/ Scenario(1, MaxHeartbeats, 1, MaxScaffoldFinishes - 1, 1)
  /\ \E request \in { <<"build", UNDEF, FALSE, 1>>, <<"build", <<"o","f","f">>, TRUE, 3>>,
                       <<"discuss", UNDEF, FALSE, 2>> } :
       /\ chatMode = request[1]
       /\ envPlannerEnabled = request[2]
       /\ contextOptimization = request[3]
       /\ Conversation(request[4])
  /\ envPlannerLongThink = UNDEF
  /\ plannerModel = <<"g","p","t","-","4","o">>
  /\ selectedModel = UNDEF
  /\ filePathsNonEmpty = TRUE
  /\ lengthUnlimited = FALSE
  /\ StreamEnvUnset
  /\ IdleTimeout(0)

(***************************************************************************)
(* execute(): from the first segment's point of view, everything up to     *)
(* the first streamText call.                                              *)
(***************************************************************************)
\* createStreamAbortSignal() and the streamText call that uses it
IssueSegment(opts, messages) ==
  /\ activeStreamAbortController' = "live"
  /\ segmentOptions' = opts
  /\ processedMessages' = messages
  /\ segmentsIssued' = Bump(segmentsIssued)
  /\ pc' = "streaming"

\* lines 1230-1261: progress 'response', commentary 'action', the first segment
StartExecuting(evs) ==
  /\ Emit(evs \o << Progress("response", "in-progress", "Generating Response"),
                   Commentary("action", "in-progress") >>)
  /\ IssueSegment("options", processedMessages)
  /\ UNCHANGED <<lengthContinuations, forcedRecoveries, finalizeSegments>>

Truthy(v) == v # UNDEF /\ v # <<>>

(***************************************************************************)
(* Number(string) of JavaScript, on optionally signed decimal integers,    *)
(* 'Infinity', the empty string and text that is no number.                *)
(***************************************************************************)
DigitChars == <<"0","1","2","3","4","5","6","7","8","9">>
DigitVal(c) == (CHOOSE i \in 1..10 : DigitChars[i] = c) - 1
AllDigits(s) == s # <<>> /\ \A i \in 1..Len(s) : s[i] \in Digits

RECURSIVE DecimalValue(_)
DecimalValue(s) ==
  IF s = <<>> THEN 0
  ELSE 10 * DecimalValue(SubSeq(s, 1, Len(s) - 1)) + DigitVal(s[Len(s)])

Finite(n) == [kind |-> "finite", value |-> n]
NaN == [kind |-> "NaN", value |-> 0]
Infinite(sign) == [kind |-> "infinite", value |-> sign]
InfinityWord == <<"I","n","f","i","n","i","t","y">>

Unsigned(t) ==
  IF t = InfinityWord THEN Infinite(1)
  ELSE IF AllDigits(t) THEN Finite(DecimalValue(t))
  ELSE NaN

Negate(n) ==
  CASE n.kind = "finite" -> Finite(0 - n.value)
    [] n.kind = "infinite" -> Infinite(0 - n.value)
    [] OTHER -> NaN

JsNumber(s) ==
  LET t == Trim(s)
  IN IF t = <<>> THEN Finite(0)
     ELSE IF Head(t) = "-" THEN Negate(Unsigned(Tail(t)))
     ELSE IF Head(t) = "+" THEN Unsigned(Tail(t))
     ELSE Unsigned(t)

\* a || b || fallback on two optional strings and a number: lines 473-478
FirstConfigured(a, b, fallback) ==
  IF Truthy(a) THEN JsNumber(a) ELSE IF Truthy(b) THEN JsNumber(b) ELSE Finite(fallback)

\* lines 471-486
MinStreamTimeoutMs == 30000
LongThinkStreamTimeoutMs == 300000
ShortStreamTimeoutMs == 180000

longThinkSelectedModel == IF Truthy(selectedModel) THEN selectedModel ELSE <<>>

dynamicStreamTimeoutFallbackMs ==
  IF LONG_THINK_MODEL_RE(longThinkSelectedModel)
  THEN LongThinkStreamTimeoutMs ELSE ShortStreamTimeoutMs

configuredStreamTimeoutMs ==
  FirstConfigured(envStreamTimeoutMs, processEnvStreamTimeoutMs, dynamicStreamTimeoutFallbackMs)

configuredStreamMaxRetries ==
  FirstConfigured(envStreamMaxRetries, processEnvStreamMaxRetries, DefaultStreamMaxRetries)

\* line 480
timeoutAccepted_NoFloor == configuredStreamTimeoutMs.kind = "finite"

timeoutAccepted ==
  /\ configuredStreamTimeoutMs.kind = "finite"
  /\ configuredStreamTimeoutMs.value >= MinStreamTimeoutMs

EffectiveStreamTimeoutMs ==
  IF timeoutAccepted THEN configuredStreamTimeoutMs.value ELSE dynamicStreamTimeoutFallbackMs

EffectiveStreamMaxRetries ==
  IF configuredStreamMaxRetries.kind = "finite" /\ configuredStreamMaxRetries.value >= 0
  THEN configuredStreamMaxRetries.value ELSE DefaultStreamMaxRetries

plannerModelForPolicy ==
  IF Truthy(plannerModel) THEN plannerModel
  ELSE IF Truthy(selectedModel) THEN selectedModel
  ELSE <<>>

plannerEnabled == parseBooleanEnv(envPlannerEnabled, TRUE)
plannerLongThinkEnabled == parseBooleanEnv(envPlannerLongThink, FALSE)
plannerIsLongThink == LONG_THINK_MODEL_RE(plannerModelForPolicy)

shouldRunPlanner == plannerEnabled /\ (~plannerIsLongThink \/ plannerLongThinkEnabled)

\* lines 657-769 up to the await of spawn, or on to the first segment
PlannerGate(evs) ==
  IF chatMode = "build"
  THEN IF shouldRunPlanner
       THEN /\ Emit(evs \o << Commentary("plan", "in-progress") >>)
            /\ plannerEntered' = TRUE
            /\ pc' = "spawn"
            /\ UNCHANGED <<segVars, subAgentState, subAgentPlan, subAgentEvents,
                           plannerOutcome>>
       ELSE /\ StartExecuting(evs \o << Commentary("plan", "in-progress"),
                                       Commentary("plan", "in-progress") >>)
            /\ UNCHANGED planVars
  ELSE /\ StartExecuting(evs)
       /\ UNCHANGED planVars

\* markRunActivity, lines 335-337: streamRecovery.updateActivity() takes now as
\* the last activity and arms the idle timer again; startMonitoring (line 517)
\* arms it the same way
markRunActivity_KeepTimer ==
  /\ idleElapsed' = idleElapsed
  /\ sinceActivity' = 0
  /\ UNCHANGED sinceSignal

markRunActivity ==
  /\ idleElapsed' = 0
  /\ sinceActivity' = 0
  /\ UNCHANGED sinceSignal

\* execute() up to its first await: the StreamRecoveryManager starts monitoring
ExecuteStart ==
  /\ pc = "intake"
  /\ pc' = "processToolInvocations"
  /\ monitorActive' = TRUE
  /\ EmitNothing
  /\ streamTimeoutMs' = EffectiveStreamTimeoutMs
  /\ streamMaxRetries' = EffectiveStreamMaxRetries
  /\ markRunActivity
  /\ UNCHANGED <<cfgVars, runnerVars, libVars, usageVars, backoffConsumed, catchVars, ctxVars, streamEnvVars, errorSurfaced, commentaryHeartbeat, retryCount, pendVars, flagVars,
                 complVars, contVars, segVars, finVars, switches, rcVars, planVars, worldVars>>

\* String.prototype.includes
Includes(s, sub) ==
  \E i \in 1..(Len(s) - Len(sub) + 1) : SubSeq(s, i, i + Len(sub) - 1) = sub

\* line 1395
IsCredentialError_ByStatus(error) == error.statusCode = 401

IsCredentialError(error) == Includes(error.message, <<"A","P","I"," ","k","e","y">>)

\* lines 1387-1415: the body and the HTTP status of the Response
ErrorResponseOf(error) ==
  LET statusCode == IF error.statusCode # 0 THEN error.statusCode ELSE 500
  IN IF IsCredentialError(error)
     THEN [status |-> 401, statusCode |-> 401, isRetryable |-> FALSE,
           message |-> <<"I","n","v","a","l","i","d"," ","o","r"," ","m","i","s","s","i","n","g"," ","A","P","I"," ","k","e","y">>]
     ELSE [status |-> statusCode, statusCode |-> statusCode,
           isRetryable |-> (error.isRetryable # "false"),
           message |-> IF error.message # <<>> THEN error.message
                       ELSE <<"A","n"," ","u","n","e","x","p","e","c","t","e","d"," ","e","r","r","o","r"," ","o","c","c","u","r","r","e","d">>]

\* the catch of chatAction: an error thrown before the stream exists
PreStreamError ==
  /\ pc = "intake"
  /\ pc' = "error"
  /\ errorSurfaced' = "pre-stream"
  /\ commentaryHeartbeat' = FALSE
  /\ \E error \in ThrownErrors :
       /\ caughtError' = error
       /\ errorResponse' = ErrorResponseOf(error)
  /\ EmitNothing
  /\ UNCHANGED <<cfgVars, runnerVars, libVars, usageVars, clockVars, backoffConsumed, ctxVars, streamEnvVars, streamCfgVars, monitorActive, retryCount, pendVars, flagVars, complVars,
                 contVars, segVars, finVars, switches, rcVars, planVars, worldVars>>

\* startCommentaryHeartbeat, lines 379-388: the interval is set
startCommentaryHeartbeat_NotSet == commentaryHeartbeat' = commentaryHeartbeat

startCommentaryHeartbeat == commentaryHeartbeat' = TRUE

\* line 554
shouldOptimizeContext_IgnoreOptIn == filePathsNonEmpty

shouldOptimizeContext == filePathsNonEmpty /\ contextOptimization

\* lines 524-568: first commentary, heartbeat, then summary or the planner gate
AfterProcessToolInvocations ==
  /\ pc = "processToolInvocations"
  /\ startCommentaryHeartbeat
  /\ IF shouldOptimizeContext
     THEN /\ Emit(<< Commentary("plan", "in-progress"), Commentary("plan", "in-progress"),
                     Progress("summary", "in-progress", "Analysing Request") >>)
          /\ pc' = "createSummary"
          /\ summaryPhase' = "running"
          /\ UNCHANGED <<segVars, planVars, contextPhase>>
     ELSE /\ PlannerGate(<< Commentary("plan", "in-progress") >>)
          /\ UNCHANGED ctxVars
  \* line 1260, with the first segment
  /\ IF pc' = "streaming" THEN markRunActivity ELSE UNCHANGED clockVars
  /\ UNCHANGED <<cfgVars, runnerVars, libVars, usageVars, backoffConsumed, catchVars, streamEnvVars, streamCfgVars, errorSurfaced, monitorActive, retryCount, pendVars, flagVars,
                 complVars, contVars, finVars, switches, rcVars, worldVars>>

\* lines 582-609
AfterCreateSummary ==
  /\ pc = "createSummary"
  /\ Emit(<< Progress("summary", "complete", "Analysis Complete"),
             Commentary("plan", "in-progress"),
             Progress("context", "in-progress", "Determining Files to Read") >>)
  /\ pc' = "selectContext"
  /\ summaryPhase' = "done"
  /\ contextPhase' = "running"
  /\ CallFinishes("createSummary")
  /\ UNCHANGED <<cfgVars, runnerVars, libVars, clockVars, backoffConsumed, catchVars, streamEnvVars, streamCfgVars, errorSurfaced, timerVars, pendVars, flagVars, complVars, contVars,
                 segVars, finVars, switches, rcVars, planVars, worldVars>>

\* lines 626-652, then the planner gate
AfterSelectContext ==
  /\ pc = "selectContext"
  /\ PlannerGate(<< Progress("context", "complete", "Code Files Selected") >>)
  /\ summaryPhase' = summaryPhase
  /\ contextPhase' = "done"
  \* line 1260, with the first segment
  /\ IF pc' = "streaming" THEN markRunActivity ELSE UNCHANGED clockVars
  /\ CallFinishes("selectContext")
  /\ UNCHANGED <<cfgVars, runnerVars, libVars, backoffConsumed, catchVars, streamEnvVars, streamCfgVars, errorSurfaced, timerVars, pendVars, flagVars, complVars, contVars,
                 finVars, switches, rcVars, worldVars>>

\* lines 712-727 and the catch at 759: spawn returns an id, or throws
AfterSpawn ==
  /\ pc = "spawn"
  /\ \E throws \in BOOLEAN :
       IF throws
       THEN /\ StartExecuting(<< Commentary("recovery", "warning") >>)
            /\ plannerOutcome' = "spawn-throws"
            /\ UNCHANGED <<plannerEntered, subAgentState, subAgentPlan, subAgentEvents>>
       ELSE /\ pc' = "plannerStart"
            /\ subAgentState' = "pending"
            /\ EmitNothing
            /\ UNCHANGED <<segVars, plannerEntered, subAgentPlan, subAgentEvents,
                           plannerOutcome>>
  \* line 1260, with the first segment
  /\ IF pc' = "streaming" THEN markRunActivity ELSE UNCHANGED clockVars
  /\ UNCHANGED <<cfgVars, runnerVars, libVars, usageVars, backoffConsumed, catchVars, ctxVars, streamEnvVars, streamCfgVars, errorSurfaced, timerVars, pendVars, flagVars, complVars, contVars,
                 finVars, switches, rcVars, worldVars>>

\* lines 719-725: onProgress, as SubAgentManager.start drives the handle
PlannerProgress ==
  /\ pc = "plannerStart"
  /\ subAgentState \in {"pending", "planning"}
  /\ subAgentState' = IF subAgentState = "pending" THEN "planning" ELSE "executing"
  /\ Emit(<< Commentary("plan", "in-progress") >>)
  /\ UNCHANGED <<cfgVars, runnerVars, libVars, usageVars, clockVars, backoffConsumed, catchVars, ctxVars, streamEnvVars, streamCfgVars, pc, errorSurfaced, timerVars, pendVars, flagVars, complVars,
                 contVars, segVars, finVars, switches, rcVars, plannerEntered, subAgentPlan,
                 subAgentEvents, plannerOutcome, worldVars>>

PlannerOutcomes == {"plan", "empty", "failed", "throws"}

\* line 735: plannerResult.success && plannerResult.output
plannerProducedPlan_IgnoreSuccess(outcome) == outcome \in {"plan", "failed"}

plannerProducedPlan(outcome) == outcome = "plan"

\* lines 727-768: start returns or throws, then on to the first segment
AfterStart ==
  /\ pc = "plannerStart"
  /\ \E outcome \in PlannerOutcomes :
       /\ outcome \in {"plan", "empty"} => subAgentState = "executing"
       /\ subAgentState' = IF outcome \in {"plan", "empty"} THEN "complete" ELSE "failed"
       /\ plannerOutcome' = outcome
       \* lines 729-731
       /\ IF outcome = "throws" THEN UNCHANGED usageVars ELSE CallFinishes("planner")
       /\ subAgentPlan' = plannerProducedPlan(outcome)
       /\ subAgentEvents' = IF plannerProducedPlan(outcome)
                            THEN subAgentEvents + 1 ELSE subAgentEvents
       /\ StartExecuting(CASE plannerProducedPlan(outcome) -> << Commentary("plan", "complete") >>
                           [] outcome = "throws" -> << Commentary("recovery", "warning") >>
                           [] OTHER -> << >>)
  /\ markRunActivity
  /\ UNCHANGED <<cfgVars, runnerVars, libVars, backoffConsumed, catchVars, ctxVars, streamEnvVars, streamCfgVars, errorSurfaced, timerVars, pendVars, flagVars, complVars, contVars,
                 finVars, switches, rcVars, plannerEntered, worldVars>>

(***************************************************************************)
(* AgentRecoveryController ('~/lib/.server/llm/agent-recovery'): the       *)
(* policy as the design describes it, in abstract backoff units.           *)
(***************************************************************************)
\* consecutive steps with no tool call and no result that raise a signal
NoProgressSignalAt == 2
\* consecutive unproductive steps at which the signal forces a finalize
ForceFinalizeAt == 3
MaxBackoffMs == 2
TimeoutBackoffMs == 1

NoSignal == [reason |-> "none", backoffMs |-> 0, forceFinalize |-> FALSE]

StepKinds == {"text", "tool", "repeat", "toolfail"}

NoProgressAfter(kind) == IF kind = "text" THEN noProgressSteps + 1 ELSE 0
RepeatedAfter(kind) == IF kind = "repeat" THEN repeatedSteps + 1 ELSE 0

analyzeStep(kind) ==
  LET n == NoProgressAfter(kind)
      r == RepeatedAfter(kind)
  IN IF n >= NoProgressSignalAt
     THEN [reason |-> "no-progress",
           backoffMs |-> Min(n - NoProgressSignalAt + 1, MaxBackoffMs),
           forceFinalize |-> n >= ForceFinalizeAt]
     ELSE IF r >= NoProgressSignalAt
     THEN [reason |-> "repeated-tool-call",
           backoffMs |-> Min(r - NoProgressSignalAt + 1, MaxBackoffMs),
           forceFinalize |-> r >= ForceFinalizeAt]
     ELSE NoSignal

registerTimeout(forceFinalize) ==
  [reason |-> "stream-timeout", backoffMs |-> TimeoutBackoffMs, forceFinalize |-> forceFinalize]

\* lines 503-506 and 845-848
MergeSignal_KeepReason(signal) ==
  /\ pendingRecoveryReason' = pendingRecoveryReason
  /\ pendingRecoveryBackoffMs' = Max(pendingRecoveryBackoffMs, signal.backoffMs)
  /\ forceFinalizeRequested' = (forceFinalizeRequested \/ signal.forceFinalize)
  /\ signalsSinceClear' = Append(signalsSinceClear, signal)
  /\ backoffConsumed' = FALSE

MergeSignal(signal) ==
  /\ pendingRecoveryReason' =
       IF pendingRecoveryReason # "none" THEN pendingRecoveryReason ELSE signal.reason
  /\ pendingRecoveryBackoffMs' = Max(pendingRecoveryBackoffMs, signal.backoffMs)
  /\ forceFinalizeRequested' = (forceFinalizeRequested \/ signal.forceFinalize)
  /\ signalsSinceClear' = Append(signalsSinceClear, signal)
  /\ backoffConsumed' = FALSE

(***************************************************************************)
(* ContinuationAnalyzer ('~/lib/.server/llm/run-continuation'): a pure     *)
(* function of the mode and of what the two texts match.                   *)
(***************************************************************************)
EffectiveChatMode == IF chatMode = "undefined" THEN "build" ELSE chatMode

analyzeRunContinuation(mode, userAsksToBuild, scaffoldOnly) ==
  [shouldContinue |-> mode = "build" /\ userAsksToBuild /\ scaffoldOnly,
   reason |-> IF mode = "build" /\ userAsksToBuild /\ scaffoldOnly
              THEN "scaffold-only" ELSE "complete"]

(***************************************************************************)
(* Callbacks of the main segment.                                          *)
(***************************************************************************)
SegmentInFlight(opts) ==
  /\ pc = "streaming"
  /\ segmentOptions = opts
  /\ activeStreamAbortController = "live"

\* options.onChunk, lines 776-778: a chunk of the main segment arrives
OnChunk ==
  /\ SegmentInFlight("options")
  /\ markRunActivity
  /\ EmitNothing
  /\ UNCHANGED <<cfgVars, runnerVars, libVars, usageVars, backoffConsumed, catchVars, ctxVars, streamEnvVars, streamCfgVars,
                 pc, errorSurfaced, timerVars, pendVars, flagVars, complVars, contVars,
                 segVars, finVars, switches, rcVars, planVars, worldVars>>

\* options.onStepFinish, lines 782-863
OnStepFinish ==
  /\ SegmentInFlight("options")
  /\ stepsLeft > 0
  /\ \E kind \in StepKinds :
       LET signal == analyzeStep(kind)
           failed == kind = "toolfail"
       IN /\ Emit((IF kind # "text"
                   THEN << Commentary("verification", "in-progress") >> ELSE << >>)
                  \o (IF failed THEN << Commentary("recovery", "warning") >> ELSE << >>)
                  \o (IF signal # NoSignal
                      THEN << Commentary("recovery", "warning") >> ELSE << >>))
          /\ hasExecutionFailures' = (hasExecutionFailures \/ failed)
          /\ recoveryTriggered' = (recoveryTriggered \/ failed \/ signal # NoSignal)
          /\ IF signal # NoSignal THEN MergeSignal(signal)
             ELSE UNCHANGED <<pendVars, backoffConsumed>>
          /\ noProgressSteps' = NoProgressAfter(kind)
          /\ repeatedSteps' = RepeatedAfter(kind)
          /\ lastStep' = kind
  /\ stepsLeft' = stepsLeft - 1
  /\ markRunActivity
  /\ UNCHANGED <<cfgVars, runnerVars, libVars, usageVars, catchVars, ctxVars, streamEnvVars, streamCfgVars, pc, errorSurfaced, timerVars, recoverySucceeded, complVars,
                 contVars, segVars, finishes, lastFinish, finalizeFinishReason, switches, planVars,
                 heartbeatsLeft, idlesLeft,
                 scaffoldsLeft, lengthsLeft>>

\* stopRunMonitors, lines 493-497
stopRunMonitors_HeartbeatOnly ==
  /\ monitorActive' = monitorActive
  /\ commentaryHeartbeat' = FALSE
  /\ activeStreamAbortController' = "null"

stopRunMonitors ==
  /\ monitorActive' = FALSE
  /\ commentaryHeartbeat' = FALSE
  /\ activeStreamAbortController' = "null"

\* the guard of emitRunCompletionEvents, line 396
AlreadyEmitted == completionEmitted

\* emitRunCompletionEvents, lines 395-469: the batch, written at most once
emitRunCompletionEvents(evs) ==
  IF AlreadyEmitted
  THEN /\ Emit(evs)
       /\ UNCHANGED complVars
  ELSE /\ completionEmitted' = TRUE
       /\ completionBatches' = completionBatches + 1
       \* lines 422-459
       /\ usageEvent' = << usageDataEvent(cumulativeUsage') >>
       \* lines 429-440
       /\ runMetricsEvent' = << [recoveryTriggered |-> recoveryTriggered,
                                 recoverySucceeded |-> recoverySucceeded'] >>
       /\ Emit(evs \o << Progress("response", "complete",
                                  IF hasExecutionFailures
                                  THEN "Response Generated (with execution failures)"
                                  ELSE "Response Generated") >>)

\* lines 943-945 and 1163-1165
clearPendingRecovery_KeepBackoff ==
  /\ pendingRecoveryReason' = "none"
  /\ pendingRecoveryBackoffMs' = pendingRecoveryBackoffMs
  /\ forceFinalizeRequested' = FALSE
  /\ signalsSinceClear' = <<>>

clearPendingRecovery ==
  /\ pendingRecoveryReason' = "none"
  /\ pendingRecoveryBackoffMs' = 0
  /\ forceFinalizeRequested' = FALSE
  /\ signalsSinceClear' = <<>>

\* lines 948-958 and 1168-1178; latestExecutionFailure is set with the flag
finalCommentaryStatus_AlwaysComplete == "complete"

finalCommentaryStatus == IF hasExecutionFailures THEN "warning" ELSE "complete"

\* lines 934-935 and 1154-1155
markRecoverySucceeded_Always == recoverySucceeded' = TRUE

markRecoverySucceeded ==
  recoverySucceeded' = (recoverySucceeded \/ pendingRecoveryReason # "none")

\* lines 1153-1184 and 934-961: the last commentary, the timers, the batch
CompleteRun ==
  /\ markRecoverySucceeded
  /\ IF pendingRecoveryReason # "none" THEN clearPendingRecovery ELSE UNCHANGED pendVars
  /\ stopRunMonitors
  /\ emitRunCompletionEvents(
       (IF pendingRecoveryReason # "none"
        THEN << Commentary("recovery", "recovered") >> ELSE << >>)
       \o << Commentary("next-step", finalCommentaryStatus) >>)
  /\ pc' = "completed"
  /\ UNCHANGED <<retryCount, recoveryTriggered, hasExecutionFailures, segmentOptions,
                 processedMessages, segmentsIssued, lengthContinuations, forcedRecoveries,
                 finalizeSegments>>

\* lines 894-989: the finalize turn and its segment
IssueFinalize_WithOptions(evs) ==
  /\ Emit(evs \o << Commentary("next-step", IF pendingRecoveryReason # "none"
                                            THEN "recovered" ELSE "in-progress") >>)
  /\ IssueSegment("options", Push(processedMessages, "assistant", "user:finalize"))
  /\ finalizeSegments' = finalizeSegments + 1
  /\ UNCHANGED <<lengthContinuations, forcedRecoveries>>

IssueFinalize(evs) ==
  /\ Emit(evs \o << Commentary("next-step", IF pendingRecoveryReason # "none"
                                            THEN "recovered" ELSE "in-progress") >>)
  /\ IssueSegment("finalizeOptions", Push(processedMessages, "assistant", "user:finalize"))
  /\ finalizeSegments' = finalizeSegments + 1
  /\ UNCHANGED <<lengthContinuations, forcedRecoveries>>

\* createDataStream.onError, lines 1263-1325
DataStreamOnError(kind) ==
  /\ commentaryHeartbeat' = FALSE
  /\ errorSurfaced' = kind
  /\ pc' = "error"

FinishReasons == {"stop", "length", "tool-calls"}

continuationLimitReached_OffByOne == runContinuationAttempts > MAX_RUN_CONTINUATION_ATTEMPTS

continuationLimitReached == runContinuationAttempts >= MAX_RUN_CONTINUATION_ATTEMPTS

\* line 878
shouldForceFinalize_IgnoreSignal(finishReason) == finishReason = "tool-calls"

shouldForceFinalize(finishReason) == finishReason = "tool-calls" \/ forceFinalizeRequested

\* line 1081
forcedRecoveryAllowed_Always == TRUE

forcedRecoveryAllowed == ~forcedRunRecoveryAttempted

\* line 1000
shouldContinueForRunIntent_IgnoreCeiling(decision) == decision.shouldContinue

shouldContinueForRunIntent(decision) == decision.shouldContinue /\ ~continuationLimitReached

\* line 1187
segmentLimitReached == switches >= MAX_RESPONSE_SEGMENTS

\* options.onFinish, lines 864-1227
OnFinish ==
  /\ SegmentInFlight("options")
  \* lines 867-869
  /\ CallFinishes("segment")
  /\ \E finishReason \in FinishReasons, userAsksToBuild \in BOOLEAN, scaffoldOnly \in BOOLEAN :
       LET decision == analyzeRunContinuation(EffectiveChatMode, userAsksToBuild, scaffoldOnly)
           Took(transition) ==
             lastFinish' = [finishReason |-> finishReason,
                            shouldContinue |-> decision.shouldContinue,
                            transition |-> transition]
       IN /\ finishes' = Bump(finishes)
          /\ UNCHANGED <<lastStep, finalizeFinishReason>>
          /\ backoffConsumed' = (\/ backoffConsumed
                                 \/ /\ shouldForceFinalize(finishReason)
                                    /\ ~forceFinalizeAttempted
                                    /\ pendingRecoveryBackoffMs > 0)
          /\ finishReason = "length" => (lengthUnlimited \/ lengthsLeft > 0)
          /\ lengthsLeft' = IF finishReason = "length" /\ ~lengthUnlimited
                            THEN lengthsLeft - 1 ELSE lengthsLeft
          /\ scaffoldOnly => scaffoldsLeft > 0
          /\ scaffoldsLeft' = IF scaffoldOnly THEN scaffoldsLeft - 1 ELSE scaffoldsLeft
          /\ IF shouldForceFinalize(finishReason) /\ ~forceFinalizeAttempted
             THEN /\ forceFinalizeAttempted' = TRUE
                  /\ IF pendingRecoveryBackoffMs > 0
                     THEN /\ Emit(<< Commentary("recovery", "warning") >>)
                          /\ pc' = "backoff"
                          /\ UNCHANGED segVars
                     ELSE IssueFinalize(<< >>)
                  /\ Took("finalizing")
                  /\ UNCHANGED <<errorSurfaced, timerVars, pendVars, flagVars, complVars,
                                 runContinuationAttempts, forcedRunRecoveryAttempted>>
             ELSE IF shouldContinueForRunIntent(decision)
             THEN /\ runContinuationAttempts' = runContinuationAttempts + 1
                  /\ Emit(<< Commentary("recovery", "warning") >>)
                  /\ IssueSegment("options",
                                  Push(processedMessages, "assistant", "user:continue-run"))
                  /\ Took("continuing")
                  /\ UNCHANGED <<errorSurfaced, timerVars, pendVars, flagVars, complVars,
                                 forceFinalizeAttempted, forcedRunRecoveryAttempted,
                                 lengthContinuations, forcedRecoveries, finalizeSegments>>
             ELSE IF /\ decision.shouldContinue /\ continuationLimitReached
                     /\ forcedRecoveryAllowed /\ EffectiveChatMode = "build"
             THEN /\ forcedRunRecoveryAttempted' = TRUE
                  /\ forcedRecoveries' = forcedRecoveries + 1
                  /\ Emit(<< Commentary("recovery", "warning") >>)
                  /\ IssueSegment("options",
                                  Push(processedMessages, "assistant", "user:forced-recovery"))
                  /\ Took("forced-recovery")
                  /\ UNCHANGED <<errorSurfaced, timerVars, pendVars, flagVars, complVars,
                                 forceFinalizeAttempted, runContinuationAttempts,
                                 lengthContinuations, finalizeSegments>>
             ELSE IF finishReason # "length"
             THEN /\ CompleteRun
                  /\ Took("completed")
                  /\ UNCHANGED <<errorSurfaced, contVars>>
             ELSE IF segmentLimitReached
             THEN /\ DataStreamOnError("segment-limit")
                  /\ Took("segment-limit")
                  /\ EmitNothing
                  /\ UNCHANGED <<monitorActive, retryCount, pendVars, flagVars, complVars,
                                 contVars, segVars>>
             ELSE /\ lengthContinuations' = Bump(lengthContinuations)
                  /\ IssueSegment("options",
                                  Push(processedMessages, "assistant", "user:continue-length"))
                  /\ Took("length-continuation")
                  /\ EmitNothing
                  /\ UNCHANGED <<errorSurfaced, timerVars, pendVars, flagVars, complVars,
                                 contVars, forcedRecoveries, finalizeSegments>>
  /\ IF pc' = "streaming" THEN markRunActivity ELSE UNCHANGED clockVars
  /\ UNCHANGED <<cfgVars, runnerVars, libVars, catchVars, ctxVars, streamEnvVars, streamCfgVars, switches, rcVars, planVars, stepsLeft, heartbeatsLeft, idlesLeft>>

\* line 891 resolved: the rest of the finalize branch
AfterBackoff ==
  /\ pc = "backoff"
  /\ IssueFinalize(<< >>)
  /\ markRunActivity
  /\ UNCHANGED <<cfgVars, runnerVars, libVars, usageVars, backoffConsumed, catchVars, ctxVars, streamEnvVars, streamCfgVars, errorSurfaced, timerVars, pendVars, flagVars, complVars, contVars,
                 finVars, switches, rcVars, planVars, worldVars>>

\* finalizeOptions.onFinish, lines 929-962
FinalizeOnFinish ==
  /\ SegmentInFlight("finalizeOptions")
  \* lines 930-932
  /\ CallFinishes("finalize")
  /\ \E finishReason \in FinishReasons : finalizeFinishReason' = finishReason
  /\ CompleteRun
  /\ UNCHANGED <<cfgVars, runnerVars, libVars, clockVars, backoffConsumed, catchVars, ctxVars, streamEnvVars, streamCfgVars, errorSurfaced, contVars, finishes, lastFinish, lastStep, switches, rcVars, planVars, worldVars>>

(***************************************************************************)
(* Timers.                                                                 *)
(***************************************************************************)
\* buildCommentaryHeartbeat ('~/lib/runtime/commentary-heartbeat'): an
\* in-progress commentary of the last known phase; its text, made from the
\* elapsed time, is not followed
buildCommentaryHeartbeat(phase) == Commentary(phase, "in-progress")

\* the setInterval callback of startCommentaryHeartbeat, lines 384-387
HeartbeatTick ==
  /\ commentaryHeartbeat
  /\ heartbeatsLeft > 0
  /\ heartbeatsLeft' = heartbeatsLeft - 1
  /\ Emit(<< buildCommentaryHeartbeat(lastCommentaryPhase) >>)
  /\ UNCHANGED <<cfgVars, runnerVars, libVars, usageVars, clockVars, backoffConsumed, catchVars, ctxVars, streamEnvVars, streamCfgVars, pc, errorSurfaced, timerVars, pendVars, flagVars, complVars,
                 contVars, segVars, finVars, switches, rcVars, planVars, stepsLeft, idlesLeft,
                 scaffoldsLeft, lengthsLeft>>

\* the abort of lines 510-514: only a controller that is not yet aborted
AbortInFlight ==
  IF activeStreamAbortController = "live" THEN "aborted" ELSE activeStreamAbortController

\* The idle check of the StreamRecoveryManager expires ('~/lib/.server/llm/stream-recovery'):
\* while retries are left it counts one and calls onTimeout (lines 501-515),
\* otherwise it stops monitoring.
OnTimeout ==
  /\ monitorActive
  /\ idlesLeft > 0
  /\ idleElapsed >= timeoutTicks
  /\ idlesLeft' = idlesLeft - 1
  /\ IF retryCount >= streamMaxRetries
     THEN /\ monitorActive' = FALSE
          /\ EmitNothing
          /\ UNCHANGED clockVars
          /\ UNCHANGED <<retryCount, pendVars, backoffConsumed, recoveryTriggered,
                         activeStreamAbortController>>
     ELSE /\ retryCount' = retryCount + 1
          /\ \E forceFinalize \in BOOLEAN : MergeSignal(registerTimeout(forceFinalize))
          /\ recoveryTriggered' = TRUE
          /\ Emit(<< Commentary("recovery", "warning") >>)
          /\ activeStreamAbortController' = AbortInFlight
          /\ idleElapsed' = 0 /\ sinceSignal' = 0
          /\ UNCHANGED <<monitorActive, sinceActivity>>
  /\ UNCHANGED <<cfgVars, runnerVars, libVars, usageVars, catchVars, ctxVars, streamEnvVars, streamCfgVars, pc, errorSurfaced, commentaryHeartbeat, recoverySucceeded,
                 hasExecutionFailures, complVars, contVars, segmentOptions, processedMessages,
                 segmentsIssued, lengthContinuations, forcedRecoveries, finalizeSegments,
                 finVars, switches, rcVars, planVars, stepsLeft, heartbeatsLeft, scaffoldsLeft, lengthsLeft>>

\* One tick of time passes while the idle timer of the StreamRecoveryManager
\* runs.  A timer that is due fires before more time passes.
Tick ==
  /\ monitorActive
  /\ idleElapsed < timeoutTicks
  /\ idleElapsed' = idleElapsed + 1
  /\ sinceActivity' = Min(sinceActivity + 1, timeoutTicks)
  /\ sinceSignal' = Min(sinceSignal + 1, timeoutTicks)
  /\ UNCHANGED <<cfgVars, runnerVars, libVars, usageVars, backoffConsumed, catchVars, ctxVars, streamEnvVars, streamCfgVars,
                 pc, errorSurfaced, outVars, timerVars, pendVars, flagVars, complVars,
                 contVars, segVars, finVars, switches, rcVars, planVars, worldVars>>

(***************************************************************************)
(* Errors inside the stream.                                               *)
(***************************************************************************)
\* the aborted segment rejects with BOLT_STREAM_TIMEOUT, which reaches onError
StreamAbortError ==
  /\ pc = "streaming"
  /\ activeStreamAbortController = "aborted"
  /\ DataStreamOnError("timeout")
  /\ EmitNothing
  /\ UNCHANGED <<cfgVars, runnerVars, libVars, usageVars, clockVars, backoffConsumed, catchVars, ctxVars, streamEnvVars, streamCfgVars, monitorActive, retryCount, pendVars, flagVars, complVars,
                 contVars, segVars, finVars, switches, rcVars, planVars, worldVars>>

\* a backend call of execute() or a segment fails
BackendError ==
  /\ \/ pc \in {"processToolInvocations", "createSummary", "selectContext"}
     \/ pc = "streaming" /\ activeStreamAbortController = "live"
  /\ DataStreamOnError("backend")
  /\ EmitNothing
  /\ UNCHANGED <<cfgVars, runnerVars, libVars, usageVars, clockVars, backoffConsumed, catchVars, ctxVars, streamEnvVars, streamCfgVars, monitorActive, retryCount, pendVars, flagVars, complVars,
                 contVars, segVars, finVars, switches, rcVars, planVars, worldVars>>

(***************************************************************************)
(* Specifications.                                                         *)
(***************************************************************************)
Next ==
  \/ ExecuteStart
  \/ PreStreamError
  \/ AfterProcessToolInvocations
  \/ AfterCreateSummary
  \/ AfterSelectContext
  \/ AfterSpawn
  \/ PlannerProgress
  \/ AfterStart
  \/ OnStepFinish
  \/ OnFinish
  \/ AfterBackoff
  \/ FinalizeOnFinish
  \/ HeartbeatTick
  \/ OnTimeout
  \/ StreamAbortError
  \/ BackendError

Spec == Init /\ [][Next]_vars

\* Every request and environment of the planner gate, up to the first segment.
GateInit ==
  /\ InitRun
  /\ LibIdle
  /\ usagesLeft = 0
  /\ NoSteps
  /\ chatMode \in ChatModes \cup {"undefined"}
  /\ envPlannerEnabled \in EnvValues
  /\ envPlannerLongThink \in EnvValues
  /\ plannerModel \in ModelNames
  /\ selectedModel \in {UNDEF, <<"o","3","-","m","i","n","i">>, <<"g","p","t","-","4","o">>}
  /\ contextOptimization \in BOOLEAN
  /\ filePathsNonEmpty \in BOOLEAN
  /\ lengthUnlimited = FALSE
  /\ StreamEnvUnset
  /\ IdleTimeout(0)
  /\ Conversation(1)
  /\ Scenario(0, 0, 0, 0, 0)

GateNext ==
  \/ ExecuteStart
  \/ AfterProcessToolInvocations
  \/ AfterCreateSummary
  \/ AfterSelectContext
  \/ AfterSpawn
  \/ PlannerProgress
  \/ AfterStart

GateSpec == GateInit /\ [][GateNext]_vars

\* A backend that may answer 'length' every time.  The event loop runs every
\* callback that is due, and the backend answers every call.
LiveInit ==
  /\ InitRun
  /\ LibIdle
  /\ usagesLeft = 0
  /\ NoSteps
  /\ Scenario(1, MaxHeartbeats, 1, 1, 0)
  /\ chatMode = "build"
  /\ \E request \in { <<UNDEF, FALSE>>, << <<"o","f","f">>, TRUE>> } :
       /\ envPlannerEnabled = request[1]
       /\ contextOptimization = request[2]
  /\ envPlannerLongThink = UNDEF
  /\ plannerModel = <<"g","p","t","-","4","o">>
  /\ selectedModel = UNDEF
  /\ filePathsNonEmpty = TRUE
  /\ lengthUnlimited = TRUE
  /\ StreamEnvUnset
  /\ IdleTimeout(0)
  /\ Conversation(1)

Progression ==
  \/ ExecuteStart
  \/ AfterProcessToolInvocations
  \/ AfterCreateSummary
  \/ AfterSelectContext
  \/ AfterSpawn
  \/ AfterStart
  \/ OnFinish
  \/ AfterBackoff
  \/ FinalizeOnFinish
  \/ StreamAbortError

LiveSpec == LiveInit /\ [][Next]_vars /\ WF_vars(Progression)

\* Every configuration of the stream recovery, up to the idle expiries.
StreamConfigInit ==
  /\ InitRun
  /\ LibIdle
  /\ usagesLeft = 0
  /\ NoSteps
  /\ Scenario(0, 0, MaxIdleExpiries, 0, 0)
  /\ chatMode = "build"
  /\ envPlannerEnabled = UNDEF /\ envPlannerLongThink = UNDEF
  /\ plannerModel = UNDEF
  /\ selectedModel \in {UNDEF, <<"o","3","-","m","i","n","i">>, <<"g","p","t","-","4","o">>}
  /\ contextOptimization = FALSE /\ filePathsNonEmpty = FALSE
  /\ lengthUnlimited = FALSE
  /\ envStreamTimeoutMs \in StreamTimeoutValues
  /\ processEnvStreamTimeoutMs \in {UNDEF, <<"6","0","0","0","0">>}
  /\ envStreamMaxRetries \in StreamMaxRetriesValues
  /\ processEnvStreamMaxRetries \in {UNDEF, <<"1">>}
  /\ IdleTimeout(0)
  /\ Conversation(1)

StreamConfigNext ==
  \/ ExecuteStart
  \/ PreStreamError
  \/ OnTimeout

StreamConfigSpec == StreamConfigInit /\ [][StreamConfigNext]_vars

\* The idle clock of the StreamRecoveryManager, with a timeout of
\* TimeoutWindow ticks, over a build without planner and context selection.
ActivityMonitorInit ==
  /\ InitRun
  /\ LibIdle
  /\ usagesLeft = 0
  /\ NoSteps
  /\ Scenario(MaxSteps, 0, MaxIdleExpiries, 0, 0)
  /\ chatMode = "build"
  /\ envPlannerEnabled = <<"o","f","f">> /\ envPlannerLongThink = UNDEF
  /\ plannerModel = UNDEF /\ selectedModel = UNDEF
  /\ contextOptimization = FALSE /\ filePathsNonEmpty = FALSE
  /\ lengthUnlimited = FALSE
  /\ StreamEnvUnset
  /\ IdleTimeout(TimeoutWindow)
  /\ Conversation(1)

ActivityMonitorNext ==
  \/ ExecuteStart
  \/ AfterProcessToolInvocations
  \/ OnChunk
  \/ OnStepFinish
  \/ OnFinish
  \/ AfterBackoff
  \/ FinalizeOnFinish
  \/ Tick
  \/ OnTimeout
  \/ StreamAbortError

ActivityMonitorSpec == ActivityMonitorInit /\ [][ActivityMonitorNext]_vars

(***************************************************************************)
(* InteractiveStepRunner (part_004).  Strings are sequences of characters; *)
(* an optional field of an event or of the result is <<>> when absent and  *)
(* << value >> when present.                                               *)
(***************************************************************************)
\* line 54
MAX_STREAM_BUFFER_CHARS == 2400
\* line 52
WS_OPEN == 1
\* WebSocket.readyState: CONNECTING, OPEN, CLOSING, CLOSED
ReadyStates == 0..3

\* chunks an executor writes: none of them holds an escape sequence or a
\* package manager's progress line, which lines 65-67 would remove
\* a chunk that fills the buffer on its own
LongChunk == [i \in 1..MAX_STREAM_BUFFER_CHARS |-> "x"]

Chunks == { <<"h","i">>, <<"\r","\n">>, <<"o","k","\r">>, <<"\n","\n","\n","!">> }

\* what the executor writes while it runs a step: only the step described as
\* 'long step' writes a chunk that fills the buffer
ChunksOf(step) == IF step = "long step" THEN { <<"h","i">>, LongChunk } ELSE Chunks

ReplaceCR(s) == [i \in 1..Len(s) |-> IF s[i] = "\r" THEN "\n" ELSE s[i]]

\* line 68: .replace(/\n{3,}/g, '\n\n')
RECURSIVE CollapseNewlines(_)
CollapseNewlines(s) ==
  IF ~\E i \in 1..(Len(s) - 2) : s[i] = "\n" /\ s[i + 1] = "\n" /\ s[i + 2] = "\n"
  THEN s
  ELSE IF s[1] = "\n" /\ s[2] = "\n" /\ s[3] = "\n"
       THEN CollapseNewlines(Tail(s))
       ELSE << Head(s) >> \o CollapseNewlines(Tail(s))

\* lines 58-69
normalizeStreamChunk(chunk) ==
  IF chunk = <<>> THEN <<>> ELSE CollapseNewlines(ReplaceCR(chunk))

\* String.prototype.slice(-n)
LastChars(s, n) == IF Len(s) <= n THEN s ELSE SubSeq(s, Len(s) - n + 1, Len(s))

\* the decimal text of a natural number, as a template literal prints it
DigitText == <<"0","1","2","3","4","5","6","7","8","9">>
RECURSIVE ToText(_)
ToText(n) == IF n < 10 THEN << DigitText[n + 1] >>
             ELSE ToText(n \div 10) \o << DigitText[(n % 10) + 1] >>

\* what executeStep resolves with, and the messages it rejects with
StepResults ==
  { [exitCode |-> 0, stdout |-> <<"o","k">>, stderr |-> <<>>],
    [exitCode |-> 17, stdout |-> <<"f","a","i","l","e","d">>, stderr |-> <<"b","a","d">>],
    [exitCode |-> 17, stdout |-> <<>>, stderr |-> <<>>] }
\* what executeStep throws: an Error with a message, or a bare number
ThrownValues ==
  { [kind |-> "Error", message |-> <<"b","o","o","m">>, value |-> 0],
    [kind |-> "number", message |-> <<>>, value |-> 17] }

\* line 198: error instanceof Error ? error.message : String(error)
thrownMessage_MessageOnly(error) == error.message

thrownMessage(error) == IF error.kind = "Error" THEN error.message ELSE ToText(error.value)

RunnerEvent(type, stepIndex, output, exitCode, error) ==
  [type |-> type, stepIndex |-> stepIndex, output |-> output, exitCode |-> exitCode,
   error |-> error]

\* lines 147-153: #emit({type: 'step-start', ...})
StepStartEvent(i) == RunnerEvent("step-start", << i >>, <<>>, <<>>, <<>>)
\* lines 167-174
StepEndEvent(i, result) ==
  RunnerEvent("step-end", << i >>, result.stdout, << result.exitCode >>, <<>>)
\* lines 179-186 and 200-206
ErrorEvent(i, exitCode, message) == RunnerEvent("error", << i >>, <<>>, exitCode, message)
\* lines 217-221
CompleteEvent == RunnerEvent("complete", <<>>, <<>>, <<>>, <<>>)

\* line 177
ErrorMessageOf(result) ==
  IF result.stderr # <<>> THEN result.stderr
  ELSE IF result.stdout # <<>> THEN result.stdout
  ELSE <<"S","t","e","p"," ","f","a","i","l","e","d"," ","w","i","t","h"," ","e","x","i","t",
         " ","c","o","d","e"," ">> \o ToText(result.exitCode)

\* #streamBufferKey, lines 83-85
streamBufferKey(stepIndex, type) == << stepIndex, type >>

\* line 106: `${existing?.output || ''}${normalizedChunk}`.slice(-MAX_STREAM_BUFFER_CHARS)
nextOutput_ChunkOnly(existing, normalizedChunk) ==
  LastChars(normalizedChunk, MAX_STREAM_BUFFER_CHARS)

nextOutput(existing, normalizedChunk) ==
  LastChars(existing \o normalizedChunk, MAX_STREAM_BUFFER_CHARS)

\* #scheduleStreamFlush, lines 87-95: a timer is set unless one is held;
\* pendingTimers counts the timers that are set and neither fired nor cleared
scheduleStreamFlush_Unguarded ==
  /\ streamFlushTimer' = TRUE
  /\ pendingTimers' = pendingTimers + 1

scheduleStreamFlush ==
  IF streamFlushTimer
  THEN UNCHANGED <<streamFlushTimer, pendingTimers>>
  ELSE /\ streamFlushTimer' = TRUE
       /\ pendingTimers' = pendingTimers + 1

\* lines 119-122: clearTimeout of the timer that is held
clearFlushTimer ==
  /\ streamFlushTimer' = FALSE
  /\ pendingTimers' = IF streamFlushTimer THEN pendingTimers - 1 ELSE pendingTimers

\* #bufferStreamChunk, lines 97-116
bufferStreamChunk(type, stepIndex, output) ==
  LET normalizedChunk == normalizeStreamChunk(output)
      key == streamBufferKey(stepIndex, type)
      at == {i \in 1..Len(streamBuffer) : streamBuffer[i].key = key}
      existing == IF at = {} THEN <<>> ELSE streamBuffer[CHOOSE i \in at : TRUE].output
      entry == [key |-> key, type |-> type, stepIndex |-> stepIndex,
                output |-> nextOutput(existing, normalizedChunk)]
  IN IF Trim(normalizedChunk) = <<>>
     THEN UNCHANGED <<streamBuffer, streamFlushTimer, pendingTimers>>
     ELSE /\ streamBuffer' = IF at = {} THEN Append(streamBuffer, entry)
                             ELSE [streamBuffer EXCEPT ![CHOOSE i \in at : TRUE] = entry]
          /\ scheduleStreamFlush

\* the events #flushStreamBuffer emits for a buffer, lines 128-130
Flushed(buffer) ==
  [i \in 1..Len(buffer) |->
     RunnerEvent(buffer[i].type, << buffer[i].stepIndex >>, buffer[i].output, <<>>, <<>>)]

\* #flushStreamBuffer, lines 118-133: the timer is cleared, the buffer emptied
flushStreamBuffer ==
  /\ clearFlushTimer
  /\ streamBuffer' = <<>>

\* lines 165-174: the flush, then 'step-end'
StepEndBatch_EndFirst(buffer, stepEnd) == << stepEnd >> \o Flushed(buffer)

StepEndBatch(buffer, stepEnd) == Flushed(buffer) \o << stepEnd >>

\* lines 144-164 and 216-226: the loop at its head with index i, after the
\* events evs of this turn: the next step is announced and handed to the
\* executor, or, past the last step, the buffer is flushed and run() returns
LoopFrom_NoComplete(i, evs, buffer) ==
  IF i < Len(steps)
  THEN /\ events' = events \o evs \o << StepStartEvent(i) >>
       /\ index' = i
       /\ runState' = "executing"
       /\ streamBuffer' = buffer
       /\ UNCHANGED runResult
  ELSE /\ events' = events \o evs \o Flushed(buffer)
       /\ index' = i
       /\ runState' = "returned"
       /\ streamBuffer' = <<>>
       /\ runResult' = [NoResult EXCEPT !.status = "complete"]

LoopFrom(i, evs, buffer) ==
  IF i < Len(steps)
  THEN /\ events' = events \o evs \o << StepStartEvent(i) >>
       /\ index' = i
       /\ runState' = "executing"
       /\ streamBuffer' = buffer
       /\ UNCHANGED runResult
  ELSE /\ events' = events \o evs \o Flushed(buffer) \o << CompleteEvent >>
       /\ index' = i
       /\ runState' = "returned"
       /\ streamBuffer' = <<>>
       /\ runResult' = [NoResult EXCEPT !.status = "complete"]

\* JSON.stringify(event): the properties of the event that are defined
Stringify(event) ==
  [f \in {"type"} \cup {g \in {"stepIndex", "output", "exitCode", "error"} : event[g] # <<>>}
     |-> event[f]]

\* line 138: this.#socket?.readyState === WS_OPEN
socketOpen_UnlessClosed(s) == s.present /\ s.readyState # 3

socketOpen(s) == s.present /\ s.readyState = WS_OPEN

\* #emit, lines 135-141, for the events this turn adds: each is dispatched,
\* and sent over the socket when that is open
emit ==
  LET added == SubSeq(events', Len(events) + 1, Len(events'))
  IN /\ sent' = IF socketOpen(socket)
                THEN sent \o [k \in 1..Len(added) |-> Stringify(added[k])]
                ELSE sent
     /\ socketAtEmit' = socketAtEmit \o [k \in 1..Len(added) |-> socket]

\* run(steps) is called, lines 143-164
Run ==
  /\ runState = "idle"
  /\ LoopFrom(0, <<>>, streamBuffer)
  /\ clearFlushTimer
  /\ emit
  /\ UNCHANGED <<chatVars, libVars, steps, chunksLeft, delivered, outcomes, thrown, flushedUpTo, socket>>

\* the executor calls context.onStdout, lines 158-160
OnStdout ==
  /\ runState = "executing"
  /\ chunksLeft > 0
  /\ chunksLeft' = chunksLeft - 1
  /\ \E chunk \in ChunksOf(steps[index + 1]) :
       /\ bufferStreamChunk("stdout", index, chunk)
       /\ delivered' = Append(delivered, [stepIndex |-> index, type |-> "stdout",
                                           chunk |-> chunk])
  /\ UNCHANGED <<chatVars, libVars, steps, index, runState, events, runResult, outcomes, thrown, flushedUpTo,
                 socket, sent, socketAtEmit>>

\* the executor calls context.onStderr, lines 161-163
OnStderr ==
  /\ runState = "executing"
  /\ chunksLeft > 0
  /\ chunksLeft' = chunksLeft - 1
  /\ \E chunk \in ChunksOf(steps[index + 1]) :
       /\ bufferStreamChunk("stderr", index, chunk)
       /\ delivered' = Append(delivered, [stepIndex |-> index, type |-> "stderr",
                                           chunk |-> chunk])
  /\ UNCHANGED <<chatVars, libVars, steps, index, runState, events, runResult, outcomes, thrown, flushedUpTo,
                 socket, sent, socketAtEmit>>

\* a timer of #scheduleStreamFlush fires, lines 92-94: it is pending no
\* more, and #flushStreamBuffer drops the handle and empties the buffer
FlushTimerFires ==
  /\ pendingTimers > 0
  /\ events' = events \o Flushed(streamBuffer)
  /\ pendingTimers' = pendingTimers - 1
  /\ streamFlushTimer' = FALSE
  /\ streamBuffer' = <<>>
  /\ flushedUpTo' = Len(delivered)
  /\ emit
  /\ UNCHANGED <<chatVars, libVars, steps, index, runState, runResult, chunksLeft, delivered, outcomes, thrown,
                 socket>>

\* line 176: result.exitCode !== 0
stepFailed_OnlyNegative(result) == result.exitCode < 0

stepFailed(result) == result.exitCode # 0

\* executeStep resolves, lines 156-194, and the loop goes on
ExecuteStepResolves ==
  /\ runState = "executing"
  /\ \E result \in StepResults :
       /\ outcomes' = Append(outcomes, << result.exitCode >>)
       /\ LET batch == StepEndBatch(streamBuffer, StepEndEvent(index, result))
          IN IF stepFailed(result)
             THEN /\ events' = events \o batch
                                 \o << ErrorEvent(index, << result.exitCode >>,
                                                  ErrorMessageOf(result)) >>
                  /\ runResult' = [status |-> "error", failedStepIndex |-> << index >>,
                                   exitCode |-> << result.exitCode >>,
                                   error |-> ErrorMessageOf(result)]
                  /\ runState' = "returned"
                  /\ streamBuffer' = <<>>
                  /\ UNCHANGED index
             ELSE LoopFrom(index + 1, batch, <<>>)
  /\ clearFlushTimer
  /\ flushedUpTo' = Len(delivered)
  /\ emit
  /\ UNCHANGED <<chatVars, libVars, steps, chunksLeft, delivered, thrown, socket>>

\* executeStep rejects, lines 195-213
ExecuteStepRejects ==
  /\ runState = "executing"
  /\ \E error \in ThrownValues :
       /\ events' = events \o Flushed(streamBuffer)
                           \o << ErrorEvent(index, <<>>, thrownMessage(error)) >>
       /\ runResult' = [status |-> "error", failedStepIndex |-> << index >>,
                        exitCode |-> <<>>, error |-> thrownMessage(error)]
       /\ thrown' = error
  /\ runState' = "returned"
  /\ flushStreamBuffer
  /\ outcomes' = Append(outcomes, <<>>)
  /\ flushedUpTo' = Len(delivered)
  /\ emit
  /\ UNCHANGED <<chatVars, libVars, steps, index, chunksLeft, delivered, socket>>

\* the connection of the socket moves on: it opens, starts closing, or is closed
SocketStateChanges ==
  /\ socket.present
  /\ \E next \in ReadyStates :
       /\ next > socket.readyState
       /\ socket' = [socket EXCEPT !.readyState = next]
  /\ UNCHANGED <<chatVars, libVars, steps, index, runState, streamBuffer, streamFlushTimer,
                 pendingTimers, events,
                 runResult, chunksLeft, delivered, outcomes, thrown, flushedUpTo, sent,
                 socketAtEmit>>

\* The chat Run is not started while the runner is followed.
ChatIdle ==
  /\ InitRun
  /\ Scenario(0, 0, 0, 0, 0)
  /\ chatMode = "build"
  /\ envPlannerEnabled = UNDEF /\ envPlannerLongThink = UNDEF
  /\ plannerModel = UNDEF /\ selectedModel = UNDEF
  /\ contextOptimization = FALSE /\ filePathsNonEmpty = FALSE
  /\ lengthUnlimited = FALSE
  /\ StreamEnvUnset
  /\ IdleTimeout(0)
  /\ Conversation(1)

StepList == << "first step", "second step", "third step" >>

\* Every list of up to MaxRunnerSteps steps, on a new runner.
RunnerInit ==
  /\ ChatIdle
  /\ LibIdle
  /\ usagesLeft = 0
  /\ NewRunner
  /\ steps \in { SubSeq(StepList, 1, n) : n \in 0..Min(MaxRunnerSteps, Len(StepList)) }
  /\ socket = NoSocket
  /\ chunksLeft = MaxChunks

RunnerNext ==
  \/ Run
  \/ OnStdout
  \/ OnStderr
  \/ FlushTimerFires
  \/ ExecuteStepResolves
  \/ ExecuteStepRejects

RunnerSpec == RunnerInit /\ [][RunnerNext]_vars

\* One step, which may be one that writes a chunk that fills the buffer.
CoalesceInit ==
  /\ ChatIdle
  /\ LibIdle
  /\ usagesLeft = 0
  /\ NewRunner
  /\ steps \in { << "first step" >>, << "long step" >> }
  /\ socket = NoSocket
  /\ chunksLeft = MaxChunks

CoalesceSpec == CoalesceInit /\ [][RunnerNext]_vars

\* A runner with a socket in any state of its connection, given one step or none.
SocketInit ==
  /\ ChatIdle
  /\ LibIdle
  /\ usagesLeft = 0
  /\ NewRunner
  /\ steps \in { <<>>, << "first step" >> }
  /\ socket \in [present : {TRUE}, readyState : ReadyStates]
  /\ chunksLeft = MaxSocketChunks

SocketNext ==
  \/ RunnerNext
  \/ SocketStateChanges

SocketSpec == SocketInit /\ [][SocketNext]_vars

\* A Run with context optimization and the planner, in which the backend
\* calls report their usage.
UsageInit ==
  /\ InitRun
  /\ LibIdle
  /\ NoSteps
  /\ Scenario(0, 0, 0, 1, 1)
  /\ usagesLeft = MaxUsageReports
  /\ chatMode = "build"
  /\ envPlannerEnabled = UNDEF /\ envPlannerLongThink = UNDEF
  /\ plannerModel = <<"g","p","t","-","4","o">> /\ selectedModel = UNDEF
  /\ contextOptimization = TRUE /\ filePathsNonEmpty = TRUE
  /\ lengthUnlimited = FALSE
  /\ StreamEnvUnset
  /\ IdleTimeout(0)
  /\ Conversation(1)

UsageNext ==
  \/ ExecuteStart
  \/ AfterProcessToolInvocations
  \/ AfterCreateSummary
  \/ AfterSelectContext
  \/ AfterSpawn
  \/ PlannerProgress
  \/ AfterStart
  \/ OnFinish
  \/ FinalizeOnFinish

UsageSpec == UsageInit /\ [][UsageNext]_vars

(***************************************************************************)
(* The credential helpers.  A JavaScript string is the sequence of its     *)
(* characters; a value of another type is a one-element sequence that      *)
(* names the type.                                                         *)
(***************************************************************************)
NonStringValues == { UNDEF, << "null" >>, << "number" >>, << "object" >> }

TypeOf(value) == IF value \in NonStringValues THEN "other" ELSE "string"

PLACEHOLDER_SNIPPETS ==
  { <<"y","o","u","r","_">>,
    <<"_","h","e","r","e">>,
    <<"p","l","a","c","e","h","o","l","d","e","r">>,
    <<"r","e","p","l","a","c","e","_","m","e">>,
    <<"c","h","a","n","g","e","m","e">> }

\* [\s_-]
RotateSeparator(c) == IsSpace(c) \/ c \in {"_", "-"}

\* /rotate[\s_-]*required/i .test(s)
ROTATE_REQUIRED_REGEX(s) ==
  \E i \in 1..Len(s) : \E j \in (i + 6)..Len(s) :
    /\ ToLowerCase(SubSeq(s, i, i + 5)) = <<"r","o","t","a","t","e">>
    /\ \A k \in (i + 6)..(j - 1) : RotateSeparator(s[k])
    /\ j + 7 <= Len(s)
    /\ ToLowerCase(SubSeq(s, j, j + 7)) = <<"r","e","q","u","i","r","e","d">>

\* /^<[^>]+>$/ .test(value.trim())
isBracketPlaceholder(value) ==
  LET t == Trim(value)
  IN /\ Len(t) >= 3
     /\ t[1] = "<" /\ t[Len(t)] = ">"
     /\ \A k \in 2..(Len(t) - 1) : t[k] # ">"

isPlaceholderCredential(value) ==
  LET normalized == ToLowerCase(Trim(value))
  IN \/ Len(normalized) = 0
     \/ ROTATE_REQUIRED_REGEX(normalized)
     \/ isBracketPlaceholder(value)
     \/ \E snippet \in PLACEHOLDER_SNIPPETS : Includes(normalized, snippet)

normalizeCredential_Untrimmed(value) ==
  IF TypeOf(value) # "string" THEN UNDEF
  ELSE IF Len(Trim(value)) = 0 \/ isPlaceholderCredential(Trim(value)) THEN UNDEF
  ELSE value

normalizeCredential(value) ==
  IF TypeOf(value) # "string" THEN UNDEF
  ELSE LET trimmed == Trim(value)
       IN IF Len(trimmed) = 0 \/ isPlaceholderCredential(trimmed) THEN UNDEF
          ELSE trimmed

\* /^https?:\/\//i .test(s)
HasHttpScheme(s) ==
  \/ Len(s) >= 7 /\ ToLowerCase(SubSeq(s, 1, 7)) = <<"h","t","t","p",":","/","/">>
  \/ Len(s) >= 8 /\ ToLowerCase(SubSeq(s, 1, 8)) = <<"h","t","t","p","s",":","/","/">>

normalizeHttpUrl_AnyScheme(value) == normalizeCredential(value)

normalizeHttpUrl(value) ==
  IF TypeOf(value) # "string" THEN UNDEF
  ELSE LET trimmed == Trim(value)
       IN IF Len(trimmed) = 0 \/ isPlaceholderCredential(trimmed) THEN UNDEF
          ELSE IF ~HasHttpScheme(trimmed) THEN UNDEF
          ELSE trimmed

\* The texts the helpers are tried on, each also with white space around it.
CredentialTexts ==
  { <<"s","k","-","l","i","v","e">>,
    <<"s","k","-","r","e","a","l","-","k","e","y","-","v","a","l","u","e">>,
    <<"s","k"," ","l","i","v","e">>,
    <<"<",">">>,
    <<"<","a",">","b",">">>,
    <<"a","<","b",">">>,
    <<"r","o","t","a","t","e",".","r","e","q","u","i","r","e","d">>,
    <<"r","o","t","a","t","e","_","r","e","q","u","i","r","e">>,
    <<"k","e","y"," ","h","e","r","e">>,
    <<"Y","o","u","r","-","K","e","y">>,
    <<"l","o","c","a","l","h","o","s","t",":","1","1","4","3","4">>,
    <<"f","t","p",":","/","/","h","o","s","t">>,
    <<"h","t","t","p",":","/","x">>,
    <<"x","h","t","t","p",":","/","/","a">>,
    <<"h","t","t","p",":","/","/">>,
    <<"h","t","t","p",":","/","/","l","o","c","a","l","h","o","s","t",":","1","1","4","3","4">>,
    <<"H","T","T","P","S",":","/","/","A","p","i",".","E","x","a","m","p","l","e">>,
    <<"h","t","t","p","s",":","/","/","a","p","i",".","o","p","e","n","a","i",".","c","o","m">>,
    <<"h","t","t","p",":","/","/","<","h","o","s","t",">">>,
    <<"R","O","T","A","T","E","_","R","E","Q","U","I","R","E","D">>,
    <<"r","o","t","a","t","e","r","e","q","u","i","r","e","d">>,
    <<"R","o","t","a","t","e"," ","-"," ","_","R","e","q","u","i","r","e","d">>,
    <<"x"," ","r","o","t","a","t","e","_","_","r","e","q","u","i","r","e","d"," ","y">>,
    <<"h","t","t","p","s",":","/","/","r","o","t","a","t","e","-","r","e","q","u","i","r","e","d">>,
    <<"<","a","p","i","-","k","e","y",">">>,
    <<"<"," ",">">>,
    <<"<","<","a",">">>,
    <<"y","o","u","r","_","o","p","e","n","a","i","_","k","e","y","_","h","e","r","e">>,
    <<"Y","O","U","R","_","K","E","Y">>,
    <<"m","y","_","k","e","y","_","H","E","R","E">>,
    <<"s","k","-","C","h","a","n","g","e","M","e","-","1">>,
    <<"P","l","a","c","e","h","o","l","d","e","r">>,
    <<"R","E","P","L","A","C","E","_","M","E">>,
    <<"h","t","t","p","s",":","/","/","y","o","u","r","_","h","o","s","t","_","h","e","r","e","/","v","1">>,
    <<>> }

Padding == { <<>>, << " " >>, << "\t", "\n" >> }

CredentialInputs ==
  NonStringValues
    \cup { left \o text \o right : left \in Padding, text \in CredentialTexts, right \in Padding }

NormalizeCredential ==
  /\ credential = NotComputed
  /\ credential' = normalizeCredential(rawValue)
  /\ UNCHANGED <<chatVars, runnerVars, provVars, regVars, xformVars, rawValue, httpUrl, renormalized>>

NormalizeHttpUrl ==
  /\ httpUrl = NotComputed
  /\ httpUrl' = normalizeHttpUrl(rawValue)
  /\ UNCHANGED <<chatVars, runnerVars, provVars, regVars, xformVars, rawValue, credential, renormalized>>

\* normalizeCredential applied to a value it returned
NormalizeAgain ==
  /\ credential \notin {NotComputed, UNDEF}
  /\ renormalized = NotComputed
  /\ renormalized' = normalizeCredential(credential)
  /\ UNCHANGED <<chatVars, runnerVars, provVars, regVars, xformVars, rawValue, credential, httpUrl>>

CredentialInit ==
  /\ ChatIdle
  /\ usagesLeft = 0
  /\ ProvidersIdle /\ RegistryIdle /\ TransformIdle
  /\ NoSteps
  /\ rawValue \in CredentialInputs
  /\ credential = NotComputed /\ httpUrl = NotComputed /\ renormalized = NotComputed

CredentialNext ==
  \/ NormalizeCredential
  \/ NormalizeHttpUrl
  \/ NormalizeAgain

CredentialSpec == CredentialInit /\ [][CredentialNext]_vars

(***************************************************************************)
(* The configured-providers loader.  Each local provider reads one         *)
(* variable for its base URL and one for its API token, when its config    *)
(* names them.                                                             *)
(***************************************************************************)
LOCAL_PROVIDERS == << "OpenAILike", "Ollama" >>

ProviderConfigs ==
  { NoProvider,
    [instance |-> TRUE, baseUrlKey |-> TRUE, apiTokenKey |-> FALSE],
    [instance |-> TRUE, baseUrlKey |-> TRUE, apiTokenKey |-> TRUE],
    [instance |-> TRUE, baseUrlKey |-> FALSE, apiTokenKey |-> TRUE] }

BaseUrlValues == { UNDEF, <<"h","t","t","p",":","/","/","h",":","1">>, <<"<","u","r","l",">">> }

ApiTokenValues == { UNDEF, <<>>, <<"s","k","-","1">>, <<"c","h","a","n","g","e","m","e">> }

\* a || b
JsOr(a, b) == IF Truthy(a) THEN a ELSE b

\* lines 39-45
envBaseUrl ==
  JsOr(normalizeHttpUrl(cloudflareEnv.baseUrl),
       JsOr(normalizeHttpUrl(processEnv.baseUrl), normalizeHttpUrl(managerEnv.baseUrl)))

\* lines 56-59
envApiToken == JsOr(cloudflareEnv.apiToken, JsOr(processEnv.apiToken, managerEnv.apiToken))

\* lines 28-68: one round of the loop
ConfiguredProvider(name, config) ==
  LET byBaseUrl == config.instance /\ config.baseUrlKey /\ Truthy(envBaseUrl)
      byApiToken == /\ config.instance /\ config.apiTokenKey /\ ~byBaseUrl
                    /\ Truthy(normalizeCredential(envApiToken))
  IN [name |-> name,
      isConfigured |-> byBaseUrl \/ byApiToken,
      configMethod |-> IF byBaseUrl \/ byApiToken THEN "environment" ELSE "none"]

\* lines 22-76: the loader returns what the loop collected
LoaderReturns ==
  /\ providersResponse = NotComputed
  /\ providerConfig # << >>
  /\ providersResponse' =
       [i \in 1..Len(LOCAL_PROVIDERS) |-> ConfiguredProvider(LOCAL_PROVIDERS[i], providerConfig[i])]
  /\ UNCHANGED <<chatVars, runnerVars, credVars, regVars, xformVars, providerConfig, cloudflareEnv, processEnv,
                 managerEnv>>

\* lines 77-90: something in the try block threw
LoaderCatches ==
  /\ providersResponse = NotComputed
  /\ providerConfig # << >>
  /\ providersResponse' =
       [i \in 1..Len(LOCAL_PROVIDERS) |->
          [name |-> LOCAL_PROVIDERS[i], isConfigured |-> FALSE, configMethod |-> "none"]]
  /\ UNCHANGED <<chatVars, runnerVars, credVars, regVars, xformVars, providerConfig, cloudflareEnv, processEnv,
                 managerEnv>>

ProvidersInit ==
  /\ ChatIdle
  /\ usagesLeft = 0
  /\ NoSteps
  /\ CredentialsIdle /\ RegistryIdle /\ TransformIdle
  /\ providerConfig \in [1..Len(LOCAL_PROVIDERS) -> ProviderConfigs]
  /\ cloudflareEnv \in [baseUrl : BaseUrlValues, apiToken : ApiTokenValues]
  /\ processEnv \in [baseUrl : BaseUrlValues, apiToken : ApiTokenValues]
  /\ managerEnv \in [baseUrl : BaseUrlValues, apiToken : ApiTokenValues]
  /\ providersResponse = NotComputed

ProvidersNext ==
  \/ LoaderReturns
  \/ LoaderCatches

ProvidersSpec == ProvidersInit /\ [][ProvidersNext]_vars

(***************************************************************************)
(* The planner of concurrent Runs.  SubAgentManager.getInstance() is one   *)
(* registry for the process, mapping an agent type to its executor; every  *)
(* Run registers its own executor under 'planner', awaits spawn() and then *)
(* calls start(), which invokes the executor registered under the type of  *)
(* the handle.                                                             *)
(***************************************************************************)
\* lines 708-709: createPlannerExecutor(getPlannerParams), registerExecutor
RegisterExecutor(run) ==
  /\ plannerStep[run] = "intake"
  /\ executors' = [executors EXCEPT !.planner = run]
  /\ plannerStep' = [plannerStep EXCEPT ![run] = "spawning"]
  /\ UNCHANGED <<chatVars, runnerVars, credVars, provVars, xformVars, invokedExecutor>>

\* lines 712-716: the await of spawn() resolves
SpawnResolves(run) ==
  /\ plannerStep[run] = "spawning"
  /\ plannerStep' = [plannerStep EXCEPT ![run] = "spawned"]
  /\ UNCHANGED <<chatVars, runnerVars, credVars, provVars, xformVars, executors, invokedExecutor>>

\* line 726: start() looks the executor up and invokes it
StartInvokes(run) ==
  /\ plannerStep[run] = "spawned"
  /\ invokedExecutor' = [invokedExecutor EXCEPT ![run] = executors.planner]
  /\ plannerStep' = [plannerStep EXCEPT ![run] = "started"]
  /\ UNCHANGED <<chatVars, runnerVars, credVars, provVars, xformVars, executors>>

RegistryInit ==
  /\ ChatIdle
  /\ usagesLeft = 0
  /\ NoSteps
  /\ LibIdle

RegistryNext ==
  \/ \E run \in Runs : RegisterExecutor(run)
  \/ \E run \in Runs : SpawnResolves(run)
  \/ \E run \in Runs : StartInvokes(run)

RegistrySpec == RegistryInit /\ [][RegistryNext]_vars

(***************************************************************************)
(* The output transform of the chat stream, lines 1326-1362.  A chunk is a *)
(* part of the data stream, a string of characters: 'g:' parts carry       *)
(* reasoning, '0:' parts text, '2:' parts data.                            *)
(***************************************************************************)
MaxParts == 4

StreamParts ==
  { <<"g",":","\"","h","m","\"","\n">>,
    <<"g",":","\"","a",":","b","\"">>,
    <<"0",":","\"","h","i","\"","\n">>,
    <<"2",":","[","1","]","\n">>,
    <<>> }

\* `0: "<div class=\"__boltThought__\">"\n`, line 1335
OpenThought ==
  <<"0",":"," ","\"","<","d","i","v"," ","c","l","a","s","s","=","\\","\"",
    "_","_","b","o","l","t","T","h","o","u","g","h","t","_","_","\\","\"",">","\"","\n">>

\* `0: "</div>\\n"\n`, line 1339
CloseThought == <<"0",":"," ","\"","<","/","d","i","v",">","\\","n","\"","\n">>

\* String.prototype.startsWith('g')
startsWithG(s) == Len(s) > 0 /\ s[1] = "g"

\* lines 1329-1331: an undefined or empty lastChunk counts as ' '
lastChunkOrBlank ==
  IF lastChunk = <<>> \/ lastChunk[1] = <<>> THEN <<" ">> ELSE lastChunk[1]

\* lines 1333-1341: the markers enqueued ahead of the chunk
thoughtMarkers_EveryReasoningChunk(last, chunk) ==
  (IF startsWithG(chunk) THEN << OpenThought >> ELSE <<>>)
    \o (IF startsWithG(last) /\ ~startsWithG(chunk) THEN << CloseThought >> ELSE <<>>)

thoughtMarkers(last, chunk) ==
  (IF startsWithG(chunk) /\ ~startsWithG(last) THEN << OpenThought >> ELSE <<>>)
    \o (IF startsWithG(last) /\ ~startsWithG(chunk) THEN << CloseThought >> ELSE <<>>)

\* chunk.split(':').slice(1).join(':'): what follows the first colon
AfterFirstColon(s) ==
  LET colons == {i \in 1..Len(s) : s[i] = ":"}
  IN IF colons = {} THEN <<>>
     ELSE SubSeq(s, (CHOOSE i \in colons : \A j \in colons : i <= j) + 1, Len(s))

\* lines 1347-1355: a reasoning part is rewritten as a text part
transformedChunk(chunk) ==
  IF startsWithG(chunk)
  THEN LET content == AfterFirstColon(chunk)
           cut == IF content # <<>> /\ content[Len(content)] = "\n"
                  THEN SubSeq(content, 1, Len(content) - 1) ELSE content
       IN <<"0",":">> \o cut \o <<"\n">>
  ELSE chunk

\* transform(chunk, controller), lines 1328-1360
Transform ==
  /\ Len(partsIn) < MaxParts
  /\ \E chunk \in StreamParts :
       /\ enqueued' = enqueued \o thoughtMarkers(lastChunkOrBlank, chunk)
                               \o << transformedChunk(chunk) >>
       /\ lastChunk' = << chunk >>
       /\ partsIn' = Append(partsIn, chunk)
  /\ UNCHANGED <<chatVars, runnerVars, credVars, provVars, regVars>>

TransformInit ==
  /\ ChatIdle
  /\ usagesLeft = 0
  /\ NoSteps
  /\ LibIdle

TransformNext == Transform

TransformSpec == TransformInit /\ [][TransformNext]_vars

(***************************************************************************)
(* Properties of the Run.                                                  *)
(***************************************************************************)
RunOver == pc \in {"completed", "error"}

\* C1: the completion batch is written at most once per Run, and a Run that is
\* over without an unrecoverable (backend or pre-stream) error has written it
\* exactly once.
C1_CompletionExactlyOnce ==
  /\ completionBatches <= 1
  /\ (RunOver /\ errorSurfaced \notin {"backend", "pre-stream"}) => completionBatches = 1

\* C2: every commentary event a handler writes carries an order greater than
\* that of every commentary event written before it in the Run, whichever
\* handler (planning, step, heartbeat, timeout, finish) wrote the earlier one.
C2_CommentaryOrderIncreases ==
  [][\A i \in 1..Len(written') :
       written'[i].type = "agent-commentary" =>
         /\ written'[i].order > lastCommentaryOrder
         /\ \A j \in 1..(i - 1) :
              written'[j].type = "agent-commentary" => written'[j].order < written'[i].order]_vars

C2_Witness ==
  /\ pc = "completed"
  /\ retryCount > 0
  /\ heartbeatsLeft = 0
  /\ stepsLeft = 0
  /\ lastCommentaryPhase = "next-step"
  /\ lastCommentaryOrder > 6

\* a step of options.onFinish that re-prompts the backend to continue the Run
ContinuingStep ==
  /\ segmentsIssued' = segmentsIssued + 1
  /\ processedMessages'.tail = <<"assistant", "user:continue-run">>

\* C3: the continuation counter never exceeds MAX_RUN_CONTINUATION_ATTEMPTS; it
\* changes only by one, only in a continuing step, and a continuing step is
\* taken only while the counter is below the ceiling.
C3_ContinuationCeiling ==
  /\ [](runContinuationAttempts <= MAX_RUN_CONTINUATION_ATTEMPTS)
  /\ [][/\ runContinuationAttempts' # runContinuationAttempts => ContinuingStep
        /\ ContinuingStep =>
             /\ runContinuationAttempts < MAX_RUN_CONTINUATION_ATTEMPTS
             /\ runContinuationAttempts' = runContinuationAttempts + 1]_vars

C3_Witness ==
  /\ runContinuationAttempts = MAX_RUN_CONTINUATION_ATTEMPTS
  /\ lastFinish.shouldContinue
  /\ lastFinish.transition \in {"forced-recovery", "completed"}

\* a call of options.onFinish at which the analyzer is consulted and says
\* continue while the ceiling is already reached, in build mode
IncompleteAtCeiling ==
  /\ finishes' = finishes + 1
  /\ lastFinish'.transition # "finalizing"
  /\ lastFinish'.shouldContinue
  /\ runContinuationAttempts >= MAX_RUN_CONTINUATION_ATTEMPTS
  /\ EffectiveChatMode = "build"

\* C4 as the specification states it: at the ceiling the first incomplete
\* finish takes forced-recovery, forced-recovery is taken at most once, and a
\* later incomplete finish completes the Run as-is.
C4_ForcedRecoveryThenComplete ==
  /\ [](forcedRecoveries <= 1)
  /\ [][IncompleteAtCeiling =>
          IF ~forcedRunRecoveryAttempted
          THEN lastFinish'.transition = "forced-recovery" /\ forcedRecoveries' = 1
          ELSE lastFinish'.transition = "completed" /\ pc' = "completed"]_vars

\* C4, amended: at the ceiling the first incomplete finish takes
\* forced-recovery, forced-recovery is taken at most once, and a later
\* incomplete finish takes neither forced-recovery nor a continuation: it
\* completes the Run as-is unless its finish reason is 'length', which is
\* handled as a length finish (a length continuation or the segment-limit error).
C4_ForcedRecoveryOnce ==
  /\ [](forcedRecoveries <= 1)
  /\ [][IncompleteAtCeiling =>
          IF ~forcedRunRecoveryAttempted
          THEN lastFinish'.transition = "forced-recovery" /\ forcedRecoveries' = 1
          ELSE IF lastFinish'.finishReason # "length"
          THEN lastFinish'.transition = "completed" /\ pc' = "completed"
          ELSE lastFinish'.transition \in {"length-continuation", "segment-limit"}]_vars

C4_Witness ==
  /\ forcedRecoveries = 1
  /\ forcedRunRecoveryAttempted
  /\ lastFinish.shouldContinue
  /\ lastFinish.transition = "completed"
  /\ pc = "completed"

\* C5: the segments started because the previous one finished with 'length'
\* never number more than MAX_RESPONSE_SEGMENTS; at the maximum the Run fails
\* with the segment-limit error instead of continuing.
C5_LengthSegmentsCapped == lengthContinuations <= MAX_RESPONSE_SEGMENTS

\* C6: a stream timeout is surfaced as the error of the Run only after the
\* configured retries are exhausted; before that the Run goes on.
C6_TimeoutSurfacedAfterRetries ==
  errorSurfaced = "timeout" => retryCount >= DefaultStreamMaxRetries

\* C7: once the Run has failed with an unrecoverable error, the heartbeat and
\* the activity monitor are both stopped.
C7_TimersStoppedOnError ==
  pc = "error" => ~commentaryHeartbeat /\ ~monitorActive

\* C8: every Run ends: it reaches completed or error.
C8_RunEnds == <>RunOver

\* a step that issues the finalize segment
FinalizeIssued ==
  /\ finalizeSegments' = finalizeSegments + 1
  /\ segmentOptions' = "finalizeOptions"
  /\ processedMessages'.tail = <<"assistant", "user:finalize">>
  /\ pc' = "streaming"

\* C9: a finish with reason 'tool-calls', or with a forced-finalize signal
\* pending, takes the finalizing transition whatever the analyzer would say;
\* finalizing issues exactly one finalize segment (max steps 1, no tools),
\* at once or after the pending backoff, and the Run completes when that
\* segment finishes.
C9_ToolCallsFinalize ==
  /\ [](finalizeSegments <= 1)
  /\ [][/\ (finishes' = finishes + 1
            /\ (lastFinish'.finishReason = "tool-calls" \/ forceFinalizeRequested))
           => /\ lastFinish'.transition = "finalizing"
              /\ finalizeSegments = 0
              /\ FinalizeIssued \/ (pc' = "backoff" /\ pendingRecoveryBackoffMs > 0)
        /\ (pc = "backoff" /\ pc' # "backoff") => FinalizeIssued
        /\ (segmentOptions = "finalizeOptions" /\ pc = "streaming" /\ pc' # "streaming")
           => \/ pc' = "completed" /\ completionBatches' = 1
              \/ pc' = "error"
        /\ segmentOptions = "finalizeOptions" => segmentsIssued' = segmentsIssued]_vars

C9_Witness ==
  /\ pc = "completed"
  /\ finalizeSegments = 1
  /\ lastFinish.transition = "finalizing"
  /\ lastFinish.finishReason = "tool-calls"
  /\ lastFinish.shouldContinue
  /\ completionBatches = 1

\* the configuration as the operator means it
NormalizedEnv(v) == ToLowerCase(Trim(v))
PlannerEnabledByConfig ==
  envPlannerEnabled = UNDEF \/ NormalizedEnv(envPlannerEnabled) \notin FalsyWords
LongThinkPlanningAllowed ==
  envPlannerLongThink # UNDEF /\ NormalizedEnv(envPlannerLongThink) \in TruthyWords
PastPlannerGate == pc \in {"spawn", "plannerStart", "streaming"}

\* C10: the Run enters planning exactly when the chat mode is 'build', the
\* planner is enabled (the default) and the planner model is not a long-think
\* model or long-think planning is allowed (off by default); otherwise it
\* starts executing with no sub-agent spawned.
C10_PlannerGate ==
  /\ PastPlannerGate =>
       (plannerEntered <=>
          /\ chatMode = "build"
          /\ PlannerEnabledByConfig
          /\ ~plannerIsLongThink \/ LongThinkPlanningAllowed)
  /\ ~plannerEntered => subAgentState = "none"
  /\ (PastPlannerGate /\ ~plannerEntered) => pc = "streaming"

C10_Witness ==
  /\ pc = "plannerStart"
  /\ plannerEntered
  /\ plannerIsLongThink
  /\ envPlannerLongThink = <<" ","T","R","U","E"," ">>
  /\ envPlannerEnabled = <<"m","a","y","b","e">>

InPlanner == pc \in {"spawn", "plannerStart"}

\* C11: however the planner fails (spawn or start throws, start returns
\* success=false or an empty output), the Run goes on to its first segment with
\* no error surfaced, no sub-agent plan and no 'sub-agent' event written.
C11_PlannerFailureContained ==
  /\ [](plannerOutcome \in {"spawn-throws", "throws", "failed", "empty"} =>
          ~subAgentPlan /\ subAgentEvents = 0)
  /\ [][(InPlanner /\ ~InPlanner' /\ plannerOutcome' # "plan") =>
          /\ plannerOutcome' \in {"spawn-throws", "throws", "failed", "empty"}
          /\ pc' = "streaming"
          /\ segmentsIssued' = 1
          /\ segmentOptions' = "options"
          /\ errorSurfaced' = "none"
          /\ ~subAgentPlan'
          /\ subAgentEvents' = 0]_vars

C11_Witness ==
  /\ plannerOutcome = "failed"
  /\ subAgentState = "failed"
  /\ pc = "completed"
  /\ completionBatches = 1

\* the first three parts of C12: summarizing and context-selection are entered
\* only with the opt-in and a non-empty file set, summarizing is done before
\* context-selection starts, and both are done before planning or executing
ContextBeforePlanning ==
  /\ summaryPhase # "not-run" => (contextOptimization /\ filePathsNonEmpty)
  /\ contextPhase # "not-run" => summaryPhase = "done"
  /\ (plannerEntered \/ segmentsIssued > 0) =>
       /\ summaryPhase \in {"not-run", "done"}
       /\ contextPhase \in {"not-run", "done"}

\* C12 as the specification states it: with the three parts above, once
\* summarizing is no longer in flight either both have run or neither has.
C12_SummaryAndContextTogether ==
  /\ ContextBeforePlanning
  /\ pc # "createSummary" => (summaryPhase = "not-run" <=> contextPhase = "not-run")

\* C12, amended: with the three parts above, either both have run or neither
\* has, unless summarizing failed: then the Run has ended with the error and
\* context-selection was never started.
C12_SummaryThenContext ==
  /\ ContextBeforePlanning
  /\ pc # "createSummary" =>
       \/ summaryPhase = "not-run" <=> contextPhase = "not-run"
       \/ /\ pc = "error" /\ errorSurfaced = "backend"
          /\ summaryPhase = "running" /\ contextPhase = "not-run"
          /\ segmentsIssued = 0 /\ ~plannerEntered

C12_Witness ==
  /\ summaryPhase = "done"
  /\ contextPhase = "done"
  /\ pc = "completed"

\* execute() has derived the stream recovery configuration
StreamConfigComputed == pc # "intake" /\ errorSurfaced # "pre-stream"

\* the configured text: envVars first, then process.env, else missing
ConfiguredText(a, b) == IF a \notin {UNDEF, <<>>} THEN a ELSE b

\* what the configured texts of the inputs denote, 0 where the text is missing
\* or is no finite number of at least 30000
AcceptedTimeoutOf(text) ==
  CASE text = <<"3","0","0","0","0">> -> 30000
    [] text = <<" ","4","5","0","0","0"," ">> -> 45000
    [] text = <<"6","0","0","0","0">> -> 60000
    [] OTHER -> 0

\* -1 where the text is missing or is no finite number of at least 0
AcceptedRetriesOf(text) ==
  CASE text = <<"0">> -> 0
    [] text = <<"1">> -> 1
    [] text = <<"3">> -> 3
    [] OTHER -> 0 - 1

\* C13: the effective stream timeout is never below 30000: a configured value
\* that is finite and at least 30000 is used as is, any other yields 300000
\* for a long-reasoning model and 180000 otherwise; the effective max retries
\* is the configured value when finite and not negative, else 2.
C13_StreamTimeoutFloor ==
  StreamConfigComputed =>
    LET timeout == AcceptedTimeoutOf(ConfiguredText(envStreamTimeoutMs,
                                                    processEnvStreamTimeoutMs))
        retries == AcceptedRetriesOf(ConfiguredText(envStreamMaxRetries,
                                                    processEnvStreamMaxRetries))
    IN /\ streamTimeoutMs >= 30000
       /\ streamTimeoutMs = IF timeout # 0 THEN timeout
                            ELSE IF selectedModel = <<"o","3","-","m","i","n","i">> THEN 300000 ELSE 180000
       /\ streamMaxRetries = IF retries >= 0 THEN retries ELSE 2

C13_Witness ==
  /\ StreamConfigComputed
  /\ envStreamTimeoutMs = <<"2","9","9","9","9">>
  /\ processEnvStreamTimeoutMs = <<"6","0","0","0","0">>
  /\ selectedModel = <<"o","3","-","m","i","n","i">>
  /\ streamTimeoutMs = 300000
  /\ envStreamMaxRetries = <<"3">>
  /\ streamMaxRetries = 3
  /\ retryCount = 3

\* the batch a handler has just written holds this event, whatever its order
Wrote(batch, ev) ==
  \E i \in 1..Len(batch) : [batch[i] EXCEPT !.order = 0] = [ev EXCEPT !.order = 0]

\* C14: a step that reports a tool-execution failure does not end the Run or its
\* segment; it sets a flag that is never reset and writes a recovery commentary
\* with status 'warning'; a Run that completes with the flag set writes the
\* 'with execution failures' progress message and a final next-step commentary
\* with status 'warning', not 'complete'.
C14_ExecutionFailureReported ==
  /\ [][hasExecutionFailures => hasExecutionFailures']_vars
  /\ [][(stepsLeft' = stepsLeft - 1 /\ lastStep' = "toolfail") =>
          /\ hasExecutionFailures'
          /\ Wrote(written', Commentary("recovery", "warning"))
          /\ pc' = pc /\ errorSurfaced' = errorSurfaced
          /\ activeStreamAbortController' = activeStreamAbortController
          /\ segmentsIssued' = segmentsIssued]_vars
  /\ [][(pc # "completed" /\ pc' = "completed" /\ hasExecutionFailures) =>
          /\ Wrote(written', Progress("response", "complete",
                                      "Response Generated (with execution failures)"))
          /\ Wrote(written', Commentary("next-step", "warning"))
          /\ ~Wrote(written', Commentary("next-step", "complete"))
          /\ ~Wrote(written', Progress("response", "complete", "Response Generated"))]_vars

C14_Witness ==
  /\ pc = "completed"
  /\ hasExecutionFailures
  /\ lastStep = "tool"
  /\ Wrote(written, Commentary("next-step", "warning"))
  /\ Wrote(written, Progress("response", "complete",
                             "Response Generated (with execution failures)"))

CaughtBeforeStreaming == errorSurfaced = "pre-stream"

\* of the messages of ErrorMessages, the one that holds 'API key'
CredentialErrorCaught == caughtError.message = <<"M","i","s","s","i","n","g"," ","A","P","I"," ","k","e","y"," ","f","o","r"," ","p","r","o","v","i","d","e","r">>

\* C15 as the specification states it: the error Response has status 401 and
\* is not retryable for a credential error, has status 500 in every other
\* case, and any other error is passed through as retryable.
C15_Status401Or500 ==
  CaughtBeforeStreaming =>
    IF CredentialErrorCaught
    THEN errorResponse.status = 401 /\ ~errorResponse.isRetryable
    ELSE errorResponse.status = 500 /\ errorResponse.isRetryable

\* C15, amended: the error Response has status 401 and is not retryable for a
\* credential error (one whose message holds 'API key'); for any other error
\* the status is the error's own status code when it carries one and 500 when
\* it does not, and it is retryable unless the error itself says it is not.
C15_ErrorResponse ==
  CaughtBeforeStreaming =>
    /\ errorResponse.statusCode = errorResponse.status
    /\ IF CredentialErrorCaught
       THEN errorResponse.status = 401 /\ ~errorResponse.isRetryable
       ELSE /\ errorResponse.status =
                 IF caughtError.statusCode # 0 THEN caughtError.statusCode ELSE 500
            /\ errorResponse.isRetryable <=> caughtError.isRetryable # "false"
            /\ errorResponse.message = caughtError.message \/ caughtError.message = <<>>

C15_Witness ==
  /\ CaughtBeforeStreaming
  /\ ~CredentialErrorCaught
  /\ caughtError.statusCode = 429
  /\ caughtError.isRetryable = "false"
  /\ errorResponse.status = 429
  /\ ~errorResponse.isRetryable

\* the Run has written its first commentary and has neither completed nor failed
RunActive ==
  pc \in {"createSummary", "selectContext", "spawn", "plannerStart", "streaming", "backoff"}

\* C16: while the Run is active the heartbeat timer is live; whenever an
\* interval elapses (the environment still has one to deliver) its callback
\* can run, also during a backoff or while the planner is awaited, and when it
\* runs it writes one in-progress commentary of the last known phase.
C16_HeartbeatWhileActive ==
  /\ [](RunActive => commentaryHeartbeat)
  /\ []((RunActive /\ heartbeatsLeft > 0) => ENABLED HeartbeatTick)
  /\ [][heartbeatsLeft' = heartbeatsLeft - 1 =>
          /\ RunActive /\ RunActive'
          /\ written' = << [Commentary(lastCommentaryPhase, "in-progress")
                             EXCEPT !.order = progressCounter] >>
          /\ lastCommentaryPhase' = lastCommentaryPhase]_vars

C16_Witness ==
  /\ pc = "backoff"
  /\ commentaryHeartbeat
  /\ Len(written) = 1
  /\ Wrote(written, Commentary("recovery", "in-progress"))

\* the directive each kind of follow-up segment is prompted with
DirectiveOf(transition) ==
  CASE transition = "finalizing" -> "user:finalize"
    [] transition = "continuing" -> "user:continue-run"
    [] transition = "forced-recovery" -> "user:forced-recovery"
    [] transition = "length-continuation" -> "user:continue-length"
    [] OTHER -> "none"

\* C17: every segment after the first is issued with exactly two messages
\* appended to the conversation, the prior assistant output and then the
\* directive of its kind; nothing else changes the conversation, so its length
\* is the initial length plus twice the number of follow-up segments.
C17_TwoMessagesPerSegment ==
  /\ [](processedMessages.length =
          messagesAtStart + 2 * (IF segmentsIssued = 0 THEN 0 ELSE segmentsIssued - 1))
  /\ [][(segmentsIssued' = segmentsIssued + 1 /\ segmentsIssued >= 1) =>
          /\ processedMessages'.length = processedMessages.length + 2
          /\ processedMessages'.tail = <<"assistant", DirectiveOf(lastFinish'.transition)>>
          /\ DirectiveOf(lastFinish'.transition) # "none"]_vars
  /\ [][processedMessages' # processedMessages =>
          (segmentsIssued' = segmentsIssued + 1 /\ segmentsIssued >= 1)]_vars

C17_Witness ==
  /\ messagesAtStart = 3
  /\ segmentsIssued = 4
  /\ finalizeSegments = 1
  /\ lengthContinuations = 1
  /\ processedMessages.length = 9

\* C18: the pending backoff is awaited only when a signal has been raised
\* since it was last awaited, so at most once per pending cycle; and when the
\* Run completes, from the finalize segment or from the main one, the pending
\* reason, the pending backoff and the force-finalize request are all cleared.
C18_BackoffOncePerSignal ==
  /\ [][(pc # "backoff" /\ pc' = "backoff") =>
          /\ ~backoffConsumed
          /\ pendingRecoveryBackoffMs > 0
          /\ pendingRecoveryReason # "none"]_vars
  /\ [][(pc # "completed" /\ pc' = "completed") =>
          /\ pendingRecoveryReason' = "none"
          /\ pendingRecoveryBackoffMs' = 0
          /\ ~forceFinalizeRequested']_vars
  /\ [](pc = "completed" =>
          /\ pendingRecoveryReason = "none"
          /\ pendingRecoveryBackoffMs = 0
          /\ ~forceFinalizeRequested)

C18_Witness ==
  /\ pc = "completed"
  /\ backoffConsumed
  /\ recoverySucceeded
  /\ finalizeSegments = 1
  /\ pendingRecoveryBackoffMs = 0

\* a timeout signal is raised: the manager counts a retry and calls onTimeout
TimeoutSignalRaised == retryCount' = retryCount + 1

\* an idle check finds the timeout elapsed
IdleCheckExpires == idlesLeft' = idlesLeft - 1

\* the monitored Run has been idle for a whole timeout window that no signal
\* was raised for yet
IdleForWindow ==
  /\ monitorActive
  /\ sinceActivity = TimeoutWindow
  /\ sinceSignal = TimeoutWindow

VisibleChunks == { <<"h","i">>, <<"o","k","\r">>, <<"\n","\n","\n","!">>, LongChunk }

\* run() has returned and every call of executeStep resolved with exit code 0
ReturnedAllZero ==
  /\ runState = "returned"
  /\ \A k \in 1..Len(outcomes) : outcomes[k] = << 0 >>

PositionsOf(type, i) ==
  {p \in 1..Len(events) : events[p].type = type /\ events[p].stepIndex = << i >>}

IsStreamEvent(ev) == ev.type \in {"stdout", "stderr"}

\* step i of the list has its events in one block that starts at position
\* from: 'step-start', stream events of step i only, 'step-end'; the block of
\* the next step follows directly
RECURSIVE StepBlocksFrom(_, _)
StepBlocksFrom(i, from) ==
  IF i = Len(steps)
  THEN from = Len(events) /\ events[from] = CompleteEvent
  ELSE /\ PositionsOf("step-start", i) = {from}
       /\ \E to \in (from + 1)..Len(events) :
            /\ PositionsOf("step-end", i) = {to}
            /\ events[to].exitCode = << 0 >>
            /\ \A p \in (from + 1)..(to - 1) :
                 IsStreamEvent(events[p]) /\ events[p].stepIndex = << i >>
            /\ \A k \in 1..Len(delivered) :
                 (delivered[k].stepIndex = i /\ delivered[k].chunk \in VisibleChunks) =>
                   \E p \in (from + 1)..(to - 1) : events[p].type = delivered[k].type
            /\ StepBlocksFrom(i + 1, to + 1)

\* C20: when every step exits with code 0, run() executes the steps in list
\* order; the events of step i are 'step-start' i, then the buffered stdout and
\* stderr events of step i, then 'step-end' i, all before 'step-start' i+1;
\* 'complete' is the last event and run() returns status 'complete'.
C20_StepsInOrderThenComplete ==
  ReturnedAllZero =>
    /\ Len(outcomes) = Len(steps)
    /\ StepBlocksFrom(0, 1)
    /\ runResult = [NoResult EXCEPT !.status = "complete"]
    /\ streamBuffer = <<>>

C20_Witness ==
  /\ ReturnedAllZero
  /\ Len(steps) = 2
  /\ runResult.status = "complete"
  /\ \E p \in 1..Len(events) : events[p].type = "stdout" /\ events[p].stepIndex = << 0 >>
  /\ \E p \in 1..Len(events) : events[p].type = "stderr" /\ events[p].stepIndex = << 1 >>
  /\ Cardinality(PositionsOf("stdout", 0)) = 2

\* the last call of executeStep resolved with a non-zero exit code
LastStepExitedNonZero ==
  /\ outcomes # <<>>
  /\ outcomes[Len(outcomes)] \in { << 17 >> }

\* the step that was executed last, and where its events start
LastExecuted == Len(outcomes) - 1
LastStepStart == CHOOSE p \in PositionsOf("step-start", LastExecuted) : TRUE

\* C21: run() stops at the first step whose exit code is not 0: no later step
\* is executed or announced, the failing step's events are 'step-start', its
\* stream events, 'step-end' and 'error', in that order and with nothing after,
\* no 'complete' is emitted, and the result is status 'error' with the index
\* and the exit code of that step.
C21_StopsAtNonZeroExit ==
  LastStepExitedNonZero =>
    /\ runState = "returned"
    /\ \A k \in 1..(Len(outcomes) - 1) : outcomes[k] = << 0 >>
    /\ Cardinality(PositionsOf("step-start", LastExecuted)) = 1
    /\ \A p \in 1..Len(events) :
         /\ events[p].type # "complete"
         /\ events[p].type = "step-start" => events[p].stepIndex[1] <= LastExecuted
    /\ Len(events) >= LastStepStart + 2
    /\ \A p \in (LastStepStart + 1)..(Len(events) - 2) :
         IsStreamEvent(events[p]) /\ events[p].stepIndex = << LastExecuted >>
    /\ events[Len(events) - 1].type = "step-end"
    /\ events[Len(events) - 1].stepIndex = << LastExecuted >>
    /\ events[Len(events) - 1].exitCode = << 17 >>
    /\ events[Len(events)].type = "error"
    /\ events[Len(events)].stepIndex = << LastExecuted >>
    /\ events[Len(events)].exitCode = << 17 >>
    /\ runResult.status = "error"
    /\ runResult.failedStepIndex = << LastExecuted >>
    /\ runResult.exitCode = << 17 >>

C21_Witness ==
  /\ LastStepExitedNonZero
  /\ runState = "returned"
  /\ Len(steps) = 2
  /\ outcomes = << << 17 >> >>
  /\ runResult.failedStepIndex = << 0 >>
  /\ \E p \in 1..Len(events) : events[p].type = "stderr"

\* the last call of executeStep threw
LastStepThrew == outcomes # <<>> /\ outcomes[Len(outcomes)] = <<>>

\* the message of what was thrown
ThrownText ==
  CASE thrown.kind = "Error" /\ thrown.message = <<"b","o","o","m">> -> <<"b","o","o","m">>
    [] thrown.kind = "number" /\ thrown.value = 17 -> <<"1","7">>
    [] OTHER -> <<>>

\* C22: when the executor throws on step i, run() stops at once: there is no
\* 'step-end' for step i, the last event is an 'error' that carries the thrown
\* message, no later step runs, and the result is status 'error' with
\* failedStepIndex i and that message.
C22_StopsWhenExecutorThrows ==
  LastStepThrew =>
    /\ runState = "returned"
    /\ thrown # NothingThrown
    /\ \A k \in 1..(Len(outcomes) - 1) : outcomes[k] = << 0 >>
    /\ PositionsOf("step-end", LastExecuted) = {}
    /\ Cardinality(PositionsOf("step-start", LastExecuted)) = 1
    /\ \A p \in 1..Len(events) :
         /\ events[p].type # "complete"
         /\ events[p].type = "step-start" => events[p].stepIndex[1] <= LastExecuted
    /\ \A p \in (LastStepStart + 1)..(Len(events) - 1) :
         IsStreamEvent(events[p]) /\ events[p].stepIndex = << LastExecuted >>
    /\ events[Len(events)] = RunnerEvent("error", << LastExecuted >>, <<>>, <<>>, ThrownText)
    /\ runResult = [status |-> "error", failedStepIndex |-> << LastExecuted >>,
                    exitCode |-> <<>>, error |-> ThrownText]

C22_Witness ==
  /\ LastStepThrew
  /\ thrown.kind = "number"
  /\ Len(outcomes) = 2
  /\ runResult.failedStepIndex = << 1 >>
  /\ \E p \in 1..Len(events) : events[p].type = "stdout" /\ events[p].stepIndex = << 1 >>

\* what a chunk adds to the output of its event: carriage returns become line
\* feeds, three line feeds or more become two, and a chunk of white space only
\* adds nothing
TextOfChunk(chunk) ==
  CASE chunk = <<"h","i">> -> <<"h","i">>
    [] chunk = <<"\r","\n">> -> <<>>
    [] chunk = <<"o","k","\r">> -> <<"o","k","\n">>
    [] chunk = <<"\n","\n","\n","!">> -> <<"\n","\n","!">>
    [] OTHER -> chunk

\* the chunks of one step and stream type that no flush has taken yet
Unflushed(i, type) ==
  SelectSeq(SubSeq(delivered, flushedUpTo + 1, Len(delivered)),
            LAMBDA d : d.stepIndex = i /\ d.type = type)

RECURSIVE ConcatText(_)
ConcatText(ds) ==
  IF ds = <<>> THEN <<>> ELSE TextOfChunk(ds[1].chunk) \o ConcatText(Tail(ds))

RECURSIVE ConcatRaw(_)
ConcatRaw(ds) == IF ds = <<>> THEN <<>> ELSE ds[1].chunk \o ConcatRaw(Tail(ds))

KeptText(text) ==
  IF Len(text) <= 2400 THEN text ELSE SubSeq(text, Len(text) - 2399, Len(text))

StreamKeys == { << i, type >> : i \in 0..(Len(steps) - 1), type \in {"stdout", "stderr"} }

EntriesOf(key) == {k \in 1..Len(streamBuffer) : streamBuffer[k].key = key}

\* the events added by this step that are stdout or stderr events
StreamEventsAdded ==
  SelectSeq(SubSeq(events', Len(events) + 1, Len(events')), IsStreamEvent)

\* a flush emits the buffer as it is: one event per entry, in the order of
\* the entries
FlushEmitsBuffer ==
  events' # events =>
    /\ Len(StreamEventsAdded) = Len(streamBuffer)
    /\ \A k \in 1..Len(streamBuffer) :
         /\ StreamEventsAdded[k].type = streamBuffer[k].type
         /\ StreamEventsAdded[k].stepIndex = << streamBuffer[k].stepIndex >>
         /\ StreamEventsAdded[k].output = streamBuffer[k].output

DefinedFields(ev) ==
  {"type"} \cup (IF ev.stepIndex = <<>> THEN {} ELSE {"stepIndex"})
           \cup (IF ev.output = <<>> THEN {} ELSE {"output"})
           \cup (IF ev.exitCode = <<>> THEN {} ELSE {"exitCode"})
           \cup (IF ev.error = <<>> THEN {} ELSE {"error"})

\* the payload carries the content of the event
SameContent(payload, ev) ==
  /\ DOMAIN payload = DefinedFields(ev)
  /\ \A f \in DefinedFields(ev) : payload[f] = ev[f]

\* the events that were emitted while the socket was open
EmittedWhileOpen ==
  SelectSeq([p \in 1..Len(events) |-> [event |-> events[p], at |-> socketAtEmit[p]]],
            LAMBDA e : e.at.present /\ e.at.readyState = 1)

\* C24: the events sent over the socket are the events emitted while the
\* socket was open, in the same order and with the same content; with a socket
\* that is open for the whole run that is every event dispatched to listeners.
C24_SentWhileOpen ==
  /\ Len(socketAtEmit) = Len(events)
  /\ Len(sent) = Len(EmittedWhileOpen)
  /\ \A k \in 1..Len(sent) : SameContent(sent[k], EmittedWhileOpen[k].event)
  /\ (\A p \in 1..Len(events) : socketAtEmit[p].present /\ socketAtEmit[p].readyState = 1) =>
       /\ Len(sent) = Len(events)
       /\ \A p \in 1..Len(events) : SameContent(sent[p], events[p])

\* a run whose socket was open for its first two events and closed after
C24_Witness ==
  /\ runState = "returned"
  /\ runResult.status = "complete"
  /\ Len(events) >= 4
  /\ Len(sent) = 2
  /\ socketAtEmit[1].readyState = 1
  /\ socket.readyState = 3

\* The texts of CredentialTexts that carry the rotate-required marker, that
\* are one <bracketed> value, and that contain a placeholder snippet.
RotateMarked ==
  { <<"R","O","T","A","T","E","_","R","E","Q","U","I","R","E","D">>,
    <<"r","o","t","a","t","e","r","e","q","u","i","r","e","d">>,
    <<"R","o","t","a","t","e"," ","-"," ","_","R","e","q","u","i","r","e","d">>,
    <<"x"," ","r","o","t","a","t","e","_","_","r","e","q","u","i","r","e","d"," ","y">>,
    <<"h","t","t","p","s",":","/","/","r","o","t","a","t","e","-","r","e","q","u","i","r","e","d">> }

Bracketed ==
  { <<"<","a","p","i","-","k","e","y",">">>,
    <<"<"," ",">">>,
    <<"<","<","a",">">> }

SnippetBearing ==
  { <<"y","o","u","r","_","o","p","e","n","a","i","_","k","e","y","_","h","e","r","e">>,
    <<"Y","O","U","R","_","K","E","Y">>,
    <<"m","y","_","k","e","y","_","H","E","R","E">>,
    <<"s","k","-","C","h","a","n","g","e","M","e","-","1">>,
    <<"P","l","a","c","e","h","o","l","d","e","r">>,
    <<"R","E","P","L","A","C","E","_","M","E">>,
    <<"h","t","t","p","s",":","/","/","y","o","u","r","_","h","o","s","t","_","h","e","r","e","/","v","1">> }

PlaceholderTexts == RotateMarked \cup Bracketed \cup SnippetBearing

\* What rawValue is without the white space around it, when it is a string.
TextOfRawValue(text) ==
  /\ text \in CredentialTexts
  /\ \E left \in Padding, right \in Padding : rawValue = left \o text \o right

\* C25: normalizeCredential returns the trimmed input exactly when the input is
\* a string that is non-empty after trimming and is not a placeholder (it has
\* no rotate-required marker, is no <bracketed> value and contains no
\* placeholder snippet); for every other input it returns undefined.  Applied
\* to a result of its own it returns that result.
C25_NormalizeCredential ==
  /\ credential # NotComputed =>
       /\ rawValue \in NonStringValues => credential = UNDEF
       /\ \A text \in CredentialTexts :
            TextOfRawValue(text) =>
              credential = IF text # <<>> /\ text \notin PlaceholderTexts THEN text ELSE UNDEF
  /\ renormalized # NotComputed => renormalized = credential

C25_Witness ==
  /\ rawValue = <<" ","s","k","-","l","i","v","e"," ">>
  /\ credential = <<"s","k","-","l","i","v","e">>
  /\ renormalized = <<"s","k","-","l","i","v","e">>

\* The texts of CredentialTexts that start with http:// or https:// in any
\* mix of cases.
SchemeTexts ==
  { <<"h","t","t","p",":","/","/">>,
    <<"h","t","t","p",":","/","/","l","o","c","a","l","h","o","s","t",":","1","1","4","3","4">>,
    <<"H","T","T","P","S",":","/","/","A","p","i",".","E","x","a","m","p","l","e">>,
    <<"h","t","t","p","s",":","/","/","a","p","i",".","o","p","e","n","a","i",".","c","o","m">>,
    <<"h","t","t","p",":","/","/","<","h","o","s","t",">">>,
    <<"h","t","t","p","s",":","/","/","r","o","t","a","t","e","-","r","e","q","u","i","r","e","d">>,
    <<"h","t","t","p","s",":","/","/","y","o","u","r","_","h","o","s","t","_","h","e","r","e","/","v","1">> }

\* C26: whenever normalizeHttpUrl(x) is defined it equals normalizeCredential(x)
\* and the trimmed x starts with http:// or https:// in any mix of cases;
\* placeholders and values without a scheme yield undefined.
C26_HttpUrlSubset ==
  (httpUrl # NotComputed) =>
    /\ rawValue \in NonStringValues => httpUrl = UNDEF
    /\ \A text \in CredentialTexts :
         TextOfRawValue(text) =>
           /\ httpUrl # UNDEF => text \in SchemeTexts /\ httpUrl = text
           /\ (httpUrl # UNDEF /\ credential # NotComputed) => httpUrl = credential
           /\ (text \in PlaceholderTexts \/ text \notin SchemeTexts) => httpUrl = UNDEF

C26_Witness ==
  /\ rawValue = <<"\t","\n","H","T","T","P","S",":","/","/","A","p","i",".","E","x","a","m","p","l","e"," ">>
  /\ httpUrl = <<"H","T","T","P","S",":","/","/","A","p","i",".","E","x","a","m","p","l","e">>
  /\ credential = httpUrl

\* a call of options.onFinish, the onFinish of every segment but the finalize
\* segment
OptionsFinish == SegmentInFlight("options") /\ finishes' # finishes

\* what a finish can do, told from what it changes
FinalizingTaken ==
  /\ forceFinalizeAttempted' /\ ~forceFinalizeAttempted
  /\ \/ finalizeSegments' = finalizeSegments + 1 /\ segmentOptions' = "finalizeOptions"
     \/ pc' = "backoff" /\ segmentsIssued' = segmentsIssued
ContinuingTaken ==
  /\ runContinuationAttempts' = runContinuationAttempts + 1
  /\ processedMessages'.tail = <<"assistant", "user:continue-run">>
ForcedRecoveryTaken ==
  /\ forcedRunRecoveryAttempted' /\ ~forcedRunRecoveryAttempted
  /\ processedMessages'.tail = <<"assistant", "user:forced-recovery">>
CompletedTaken == pc' = "completed" /\ completionBatches' = completionBatches + 1
LengthContinuationTaken ==
  /\ lengthContinuations' # lengthContinuations
  /\ processedMessages'.tail = <<"assistant", "user:continue-length">>
SegmentLimitTaken == pc' = "error" /\ errorSurfaced' = "segment-limit"

SegmentIssued == segmentsIssued' # segmentsIssued /\ pc' = "streaming"

TransitionsTaken ==
  { t \in {"finalizing", "continuing", "forced-recovery", "completed", "length"} :
      \/ t = "finalizing" /\ FinalizingTaken
      \/ t = "continuing" /\ ContinuingTaken
      \/ t = "forced-recovery" /\ ForcedRecoveryTaken
      \/ t = "completed" /\ CompletedTaken
      \/ t = "length" /\ (LengthContinuationTaken \/ SegmentLimitTaken) }

\* the transition the priority of the five rules selects for this finish
TransitionByPriority(finishReason, analyzerSaysContinue) ==
  IF finishReason = "tool-calls" \/ forceFinalizeRequested THEN "finalizing"
  ELSE IF analyzerSaysContinue /\ runContinuationAttempts < MAX_RUN_CONTINUATION_ATTEMPTS
  THEN "continuing"
  ELSE IF /\ analyzerSaysContinue
          /\ runContinuationAttempts >= MAX_RUN_CONTINUATION_ATTEMPTS
          /\ ~forcedRunRecoveryAttempted
          /\ EffectiveChatMode = "build"
  THEN "forced-recovery"
  ELSE IF finishReason # "length" THEN "completed"
  ELSE "length"

\* C27: each finish of a segment other than the finalize segment takes exactly
\* one transition, the first that applies of: finalizing (reason 'tool-calls'
\* or force-finalize requested), continuing (the analyzer says continue, the
\* attempts are below the ceiling), forced-recovery (the analyzer says
\* continue, the ceiling is reached, no forced recovery yet, build mode),
\* completed (reason other than 'length'), and a length continuation or the
\* segment-limit error.  A finish issues at most one segment, and none when it
\* writes the completion.
C27_OneTransitionByPriority ==
  [][OptionsFinish =>
       /\ TransitionsTaken =
            { TransitionByPriority(lastFinish'.finishReason, lastFinish'.shouldContinue) }
       /\ ~(LengthContinuationTaken /\ SegmentLimitTaken)
       /\ SegmentIssued => segmentsIssued' \in {segmentsIssued + 1, segmentsIssued - 1}
       /\ CompletedTaken => ~SegmentIssued]_vars

\* a Run that took the continuing, the forced-recovery and the completed
\* transition, the last at a finish where the analyzer still said continue
C27_Witness ==
  /\ pc = "completed"
  /\ runContinuationAttempts = MAX_RUN_CONTINUATION_ATTEMPTS
  /\ forcedRunRecoveryAttempted
  /\ lastFinish.shouldContinue /\ lastFinish.finishReason = "stop"
  /\ finalizeSegments = 0

MergedSignals == { signalsSinceClear[i] : i \in 1..Len(signalsSinceClear) }

\* signal a is at least as severe as b in backoff and in forceFinalize, and
\* more severe in one of them
MoreSevere(a, b) ==
  /\ a.backoffMs >= b.backoffMs
  /\ b.forceFinalize => a.forceFinalize
  /\ a.backoffMs > b.backoffMs \/ (a.forceFinalize /\ ~b.forceFinalize)

MostSevereSignals ==
  { a \in MergedSignals : ~\E b \in MergedSignals : MoreSevere(b, a) }

\* C28: after any sequence of signals merged since the last clear, the pending
\* backoff is the largest backoff of those signals, force-finalize is
\* requested iff one of them had forceFinalize set, and the pending reason is
\* the reason of a most severe of them.
C28_MostSevereSignalPending ==
  signalsSinceClear # <<>> =>
    /\ \E a \in MergedSignals : pendingRecoveryBackoffMs = a.backoffMs
    /\ \A a \in MergedSignals : pendingRecoveryBackoffMs >= a.backoffMs
    /\ forceFinalizeRequested <=> \E a \in MergedSignals : a.forceFinalize
    /\ pendingRecoveryReason \in { a.reason : a \in MostSevereSignals }

RECURSIVE SumOfDeltas(_)
SumOfDeltas(deltas) ==
  IF deltas = <<>> THEN [completionTokens |-> 0, promptTokens |-> 0, totalTokens |-> 0]
  ELSE LET rest == SumOfDeltas(Tail(deltas))
           u == Head(deltas).usage
       IN [completionTokens |-> rest.completionTokens + u.completionTokens,
           promptTokens |-> rest.promptTokens + u.promptTokens,
           totalTokens |-> rest.totalTokens + u.totalTokens]

\* C29: the usage event of the completion batch carries the sum of the usages
\* of every backend call that finished during the Run (summary, context
\* selection, planner, every segment, the finalize segment) and no call
\* finishes after it; the cumulative usage never decreases, and it grows by a
\* finished call's usage exactly when that call finishes.
C29_UsageIsSumOfFinishedCalls ==
  /\ [](usageEvent # <<>> => usageEvent[1] = SumOfDeltas(usageDeltas))
  /\ [](cumulativeUsage = SumOfDeltas(usageDeltas))
  /\ [][/\ cumulativeUsage'.completionTokens >= cumulativeUsage.completionTokens
        /\ cumulativeUsage'.promptTokens >= cumulativeUsage.promptTokens
        /\ cumulativeUsage'.totalTokens >= cumulativeUsage.totalTokens
        /\ cumulativeUsage' # cumulativeUsage => Len(usageDeltas') = Len(usageDeltas) + 1
        /\ usageEvent # <<>> => usageEvent' = usageEvent /\ usageDeltas' = usageDeltas]_vars

\* a completed Run in which the summary, the context selection, the planner, a
\* segment and the finalize segment each reported a usage
C29_Witness ==
  /\ pc = "completed"
  /\ Len(usageDeltas) = 5
  /\ [i \in 1..5 |-> usageDeltas[i].call] =
       << "createSummary", "selectContext", "planner", "segment", "finalize" >>
  /\ usageEvent # <<>>
  /\ usageEvent[1].totalTokens >= 10
  /\ usageEvent[1].promptTokens + usageEvent[1].completionTokens = usageEvent[1].totalTokens

\* the values of BaseUrlValues and ApiTokenValues that are valid and no
\* placeholder
ValidBaseUrls == { <<"h","t","t","p",":","/","/","h",":","1">> }
ValidApiTokens == { <<"s","k","-","1">> }

EnvironmentSources == { cloudflareEnv, processEnv, managerEnv }

\* one of the three environments holds a valid base URL or API token for a
\* provider of this config
HoldsValidValue(config) ==
  /\ config.instance
  /\ \/ config.baseUrlKey /\ \E env \in EnvironmentSources : env.baseUrl \in ValidBaseUrls
     \/ config.apiTokenKey /\ \E env \in EnvironmentSources : env.apiToken \in ValidApiTokens

LoaderThrew ==
  /\ providersResponse # NotComputed
  /\ \A i \in 1..Len(providersResponse) :
       ~providersResponse[i].isConfigured /\ providersResponse[i].configMethod = "none"

\* C30: the loader reports a local provider as configured via 'environment'
\* exactly when at least one of the three environments holds a valid,
\* non-placeholder base URL or API token for it, whatever the environments of
\* higher priority hold; after an internal error every provider is reported
\* as not configured.
C30_ConfiguredWhenAnySourceValid ==
  providersResponse # NotComputed =>
    \/ LoaderThrew
    \/ \A i \in 1..Len(LOCAL_PROVIDERS) :
         /\ providersResponse[i].name = LOCAL_PROVIDERS[i]
         /\ providersResponse[i].isConfigured <=> HoldsValidValue(providerConfig[i])
         /\ providersResponse[i].configMethod =
              IF HoldsValidValue(providerConfig[i]) THEN "environment" ELSE "none"

\* C31: in every state of a Run recoverySucceeded implies recoveryTriggered,
\* and the run-metrics event of the completion batch reports a successful
\* recovery only together with a triggered one.
C31_SucceededImpliesTriggered ==
  /\ recoverySucceeded => recoveryTriggered
  /\ runMetricsEvent # <<>> =>
       (runMetricsEvent[1].recoverySucceeded => runMetricsEvent[1].recoveryTriggered)

\* a completed Run whose metrics report a recovery that succeeded
C31_Witness ==
  /\ pc = "completed"
  /\ runMetricsEvent # <<>>
  /\ runMetricsEvent[1].recoverySucceeded /\ runMetricsEvent[1].recoveryTriggered
  /\ recoverySucceeded

CompletionBatchWritten == completionBatches' = completionBatches + 1

\* C32: in every state of a Run a positive pending backoff or a requested
\* force-finalize comes with a pending recovery reason; and when the
\* completion batch is written the pending reason is unset, the pending
\* backoff is 0 and force-finalize is not requested.
C32_PendingSignalHasReason ==
  /\ []((pendingRecoveryBackoffMs > 0 \/ forceFinalizeRequested)
          => pendingRecoveryReason # "none")
  /\ [][CompletionBatchWritten =>
          /\ pendingRecoveryReason' = "none"
          /\ pendingRecoveryBackoffMs' = 0
          /\ ~forceFinalizeRequested']_vars

\* a Run that completed after a signal with a backoff and force-finalize was
\* pending
C32_Witness ==
  /\ pc = "completed" /\ completionBatches = 1
  /\ recoverySucceeded
  /\ finalizeSegments = 1
  /\ pendingRecoveryReason = "none" /\ pendingRecoveryBackoffMs = 0
  /\ ~forceFinalizeRequested

\* the 'response complete' progress event is the last event of the batch just
\* written and carries the highest order of the Run
ResponseCompleteIsLast ==
  /\ written' # << >>
  /\ LET last == written'[Len(written')]
     IN /\ last.type = "progress" /\ last.tag = "response" /\ last.status = "complete"
        /\ last.order = progressCounter' - 1
        /\ last.order = lastOrder'
        /\ last.order > lastOrder
        /\ \A i \in 1..(Len(written') - 1) : written'[i].order < last.order

\* C33: both timers are stopped when the completion batch is written, its
\* 'response complete' progress event carries the highest order of the Run,
\* and after it no commentary, heartbeat or progress event is written and no
\* backend segment is issued.
C33_NothingAfterCompletion ==
  /\ [](completionEmitted => ~commentaryHeartbeat /\ ~monitorActive)
  /\ [][/\ CompletionBatchWritten => ResponseCompleteIsLast
        /\ completionEmitted =>
             /\ written' = << >> \/ written' = written
             /\ progressCounter' = progressCounter
             /\ lastOrder' = lastOrder
             /\ segmentsIssued' = segmentsIssued
             /\ finalizeSegments' = finalizeSegments
             /\ pc' = "completed"]_vars

\* a Run completed while the heartbeat had ticked and a timeout had been
\* signalled earlier in the Run
C33_Witness ==
  /\ pc = "completed" /\ completionEmitted
  /\ heartbeatsLeft = 0 /\ retryCount > 0
  /\ ~commentaryHeartbeat /\ ~monitorActive

FinalizeSegmentFinishes == finalizeFinishReason' # finalizeFinishReason

\* C34: the finalize segment is issued at most once per Run; when it finishes,
\* whatever its finish reason, the completion batch is written and the Run is
\* completed; and once it is issued no continuation, forced recovery, length
\* continuation or second finalize follows.
C34_FinalizeThenCompleted ==
  /\ [](finalizeSegments <= 1)
  /\ [](finalizeFinishReason # "none" => pc = "completed" /\ completionBatches = 1)
  /\ [][/\ forceFinalizeAttempted => forceFinalizeAttempted'
        /\ FinalizeSegmentFinishes =>
             /\ finalizeSegments = 1 /\ segmentOptions = "finalizeOptions"
             /\ pc' = "completed"
             /\ CompletionBatchWritten
        /\ finalizeSegments = 1 =>
             /\ segmentsIssued' = segmentsIssued
             /\ finalizeSegments' = finalizeSegments
             /\ runContinuationAttempts' = runContinuationAttempts
             /\ forcedRecoveries' = forcedRecoveries
             /\ lengthContinuations' = lengthContinuations
             /\ pc' \in {"streaming", "completed", "error"}]_vars

\* a Run completed by a finalize segment that itself ended with 'length'
C34_Witness ==
  /\ pc = "completed"
  /\ finalizeSegments = 1
  /\ finalizeFinishReason = "length"
  /\ completionBatches = 1

\* the backend segments of the Run that are no length continuations
SegmentsBesidesLength == segmentsIssued - lengthContinuations

\* C35: length continuations aside, a Run issues at most 1 + ceiling + 1 + 1
\* backend segments: the initial one, at most MAX_RUN_CONTINUATION_ATTEMPTS
\* continuations, at most one forced recovery and at most one finalize.
C35_SegmentsBounded ==
  ~lengthUnlimited =>
    /\ SegmentsBesidesLength <= 1 + MAX_RUN_CONTINUATION_ATTEMPTS + 1 + 1
    /\ runContinuationAttempts <= MAX_RUN_CONTINUATION_ATTEMPTS
    /\ forcedRecoveries <= 1
    /\ finalizeSegments <= 1
    /\ SegmentsBesidesLength
         = (IF segmentsIssued > 0 THEN 1 ELSE 0) + runContinuationAttempts + forcedRecoveries
             + finalizeSegments

\* a Run that issued all eight: five continuations, the forced recovery and
\* the finalize segment
C35_Witness ==
  /\ ~lengthUnlimited
  /\ SegmentsBesidesLength = 1 + MAX_RUN_CONTINUATION_ATTEMPTS + 1 + 1
  /\ runContinuationAttempts = MAX_RUN_CONTINUATION_ATTEMPTS
  /\ forcedRecoveries = 1 /\ finalizeSegments = 1

\* C36: the planner executor a Run's start() invokes is the executor this Run
\* registered, whatever the other Runs of the process register in between.
C36_OwnExecutorInvoked ==
  \A run \in Runs : invokedExecutor[run] # "none" => invokedExecutor[run] = run

\* the terminal and step-closing events of the runner
ClosingEvents == { "step-end", "error", "complete" }

RunnerEventsAdded == SubSeq(events', Len(events) + 1, Len(events'))

EmitsClosingEvent ==
  \E k \in 1..Len(RunnerEventsAdded) : RunnerEventsAdded[k].type \in ClosingEvents

\* C37: under every interleaving of the flush timer with the chunks, at most
\* one flush timer is pending, a non-empty stream buffer has a pending flush
\* timer, and whenever run() emits 'step-end', 'error' or 'complete', and when
\* it returns, the buffer is empty and no flush timer is pending.
C37_OneTimerAndEmptyAtClosing ==
  /\ [](/\ pendingTimers <= 1
        /\ streamBuffer # <<>> => pendingTimers = 1
        /\ runState = "returned" => streamBuffer = <<>> /\ pendingTimers = 0)
  /\ [][EmitsClosingEvent => streamBuffer' = <<>> /\ pendingTimers' = 0]_vars

\* two chunks were buffered behind one timer, and run() has since closed a step
C37_Witness ==
  /\ Len(delivered) >= 2
  /\ flushedUpTo = Len(delivered)
  /\ Len(outcomes) >= 1
  /\ \E k \in 1..Len(events) : events[k].type = "step-end"
  /\ \E k \in 1..Len(events) :
       events[k].type \in {"stdout", "stderr"} /\ Len(events[k].output) > 1

\* the events of one step and stream type, and the chunks delivered for them
EventsOf(key) ==
  SelectSeq(events, LAMBDA ev : ev.type = key[2] /\ ev.stepIndex = << key[1] >>)

DeliveredFor(key) ==
  SelectSeq(delivered, LAMBDA d : d.stepIndex = key[1] /\ d.type = key[2])

RECURSIVE ConcatOutputs(_)
ConcatOutputs(evs) ==
  IF evs = <<>> THEN <<>> ELSE evs[1].output \o ConcatOutputs(Tail(evs))

BufferedOutput(key) ==
  IF EntriesOf(key) = {} THEN <<>>
  ELSE streamBuffer[CHOOSE k \in EntriesOf(key) : TRUE].output

\* the positions at which step i is closed by 'step-end' or 'error'
ClosingPositions(i) ==
  {p \in 1..Len(events) :
     events[p].type \in {"step-end", "error"} /\ events[p].stepIndex = << i >>}

NoOutputOverLimit ==
  /\ \A k \in 1..Len(events) : IsStreamEvent(events[k]) => Len(events[k].output) < 2400
  /\ \A k \in 1..Len(streamBuffer) : Len(streamBuffer[k].output) < 2400

\* C38: while no buffered output exceeds 2400 characters, for each step and
\* stream type the outputs of the emitted events, concatenated in emission
\* order, are the normalized non-blank chunks concatenated in arrival order:
\* what is emitted and what is still buffered make up what was delivered, and
\* nothing is left in the buffer once the step is closed; every such event
\* lies after the 'step-start' of its step and before its 'step-end' or 'error'.
C38_OutputsAreChunksInOrder ==
  NoOutputOverLimit =>
    \A key \in StreamKeys :
      /\ ConcatOutputs(EventsOf(key)) \o BufferedOutput(key) = ConcatText(DeliveredFor(key))
      /\ ClosingPositions(key[1]) # {} => BufferedOutput(key) = <<>>
      /\ \A p \in 1..Len(events) :
           (events[p].type = key[2] /\ events[p].stepIndex = << key[1] >>) =>
             /\ \E s \in 1..(p - 1) :
                  events[s].type = "step-start" /\ events[s].stepIndex = << key[1] >>
             /\ \A q \in ClosingPositions(key[1]) : p < q

\* a closed step whose stream was flushed twice, with a blank chunk delivered
C38_Witness ==
  \E key \in StreamKeys :
    /\ Len(EventsOf(key)) = 2
    /\ Len(DeliveredFor(key)) = 3
    /\ \E k \in 1..3 : DeliveredFor(key)[k].chunk = <<"\r","\n">>
    /\ ClosingPositions(key[1]) # {}

\* the positions of the terminal events of the call
TerminalPositions == {p \in 1..Len(events) : events[p].type \in {"complete", "error"}}

\* the steps the executor was invoked on: those it has settled, and the one
\* it is running
StepsInvoked == Len(outcomes) + (IF runState = "executing" THEN 1 ELSE 0)

\* C39: a call of run() emits exactly one terminal event, 'complete' or
\* 'error' and never both; it is the last event of the call and agrees with
\* the returned status; there are as many 'step-start' events as steps the
\* executor was invoked on.
C39_OneTerminalEvent ==
  /\ runState # "returned" => TerminalPositions = {}
  /\ runState = "returned" =>
       /\ TerminalPositions = {Len(events)}
       /\ events[Len(events)].type = runResult.status
  /\ Cardinality({p \in 1..Len(events) : events[p].type = "step-start"}) = StepsInvoked

\* run() returned 'error' from its second step, after output of that step
C39_Witness ==
  /\ runState = "returned"
  /\ runResult.status = "error"
  /\ runResult.failedStepIndex = << 1 >>
  /\ Len(outcomes) = 2
  /\ \E p \in 1..Len(events) : IsStreamEvent(events[p]) /\ events[p].stepIndex = << 1 >>

\* the parts that carry reasoning
ReasoningParts == { <<"g",":","\"","h","m","\"","\n">>, <<"g",":","\"","a",":","b","\"">> }

\* the thought-wrapper markers among the enqueued strings, in order
MarkersEnqueued ==
  SelectSeq(enqueued, LAMBDA str : str = OpenThought \/ str = CloseThought)

\* the chunks before which an opening, or a closing, marker is due
OpeningsDue ==
  {k \in 1..Len(partsIn) :
     partsIn[k] \in ReasoningParts /\ (k = 1 \/ partsIn[k - 1] \notin ReasoningParts)}

ClosingsDue ==
  {k \in 2..Len(partsIn) :
     partsIn[k] \notin ReasoningParts /\ partsIn[k - 1] \in ReasoningParts}

Openings == Cardinality({k \in 1..Len(MarkersEnqueued) : MarkersEnqueued[k] = OpenThought})
Closings == Cardinality({k \in 1..Len(MarkersEnqueued) : MarkersEnqueued[k] = CloseThought})

\* C40: the opening and closing thought markers alternate, starting with an
\* opening; an opening is enqueued exactly when a reasoning chunk follows a
\* non-reasoning chunk or the start of the stream, a closing exactly when a
\* non-reasoning chunk follows a reasoning chunk; openings minus closings is 0
\* or 1, and 1 exactly while the last chunk was a reasoning chunk.
C40_ThoughtMarkersAlternate ==
  /\ \A k \in 1..Len(MarkersEnqueued) :
       MarkersEnqueued[k] = (IF k % 2 = 1 THEN OpenThought ELSE CloseThought)
  /\ Openings = Cardinality(OpeningsDue)
  /\ Closings = Cardinality(ClosingsDue)
  /\ Openings - Closings \in {0, 1}
  /\ (Openings - Closings = 1) =
       (partsIn # <<>> /\ partsIn[Len(partsIn)] \in ReasoningParts)

\* two reasoning chunks in a row, a text chunk, then reasoning again
C40_Witness ==
  /\ Len(partsIn) = 4
  /\ partsIn[1] \in ReasoningParts /\ partsIn[2] \in ReasoningParts
  /\ partsIn[3] \notin ReasoningParts /\ partsIn[4] \in ReasoningParts
  /\ Openings = 2 /\ Closings = 1

====
